---- MODULE Spec2Model ----
(***************************************************************************)
(* Model of the vnas-stats datafeed pipeline: the datafeed_fetcher loop    *)
(* with its in-memory fallback queue, the datafeed_queue table, and the    *)
(* datafeed_processor that projects every queued snapshot onto the         *)
(* controller / callsign / position session tables.                        *)
(*                                                                         *)
(* Tables are sequences; a row's id is its index (Uuid::now_v7 is fresh    *)
(* and time ordered).  Times are integers.                                 *)
(***************************************************************************)
EXTENDS Integers, Sequences, FiniteSets, TLC

\* ------------------------------------------------------------------ bounds
MaxTicks == 2          \* iterations of fetcher_loop next to a processor that may crash
MaxOutageTicks == 3    \* iterations of fetcher_loop next to one run of the processor
MaxControllers == 2    \* controller records in one projected snapshot
MaxAborts == 1         \* crashes / database errors of the processor in one run
MaxSnapshots == 3      \* snapshots given to the projector on its own
MaxMixedSnapshots == 2 \* snapshots with records that do not parse, given to the projector
MaxShutdownTicks == 1 \* iterations of fetcher_loop next to a shutdown request
MaxRepeatingTicks == 2 \* iterations of fetcher_loop on a feed that may list a controller twice
MaxRecoveryTicks == 3  \* iterations of fetcher_loop, the last of them with a database that is up
ScaledLimit == 2       \* a batch limit small enough to bind on the short queue

\* ------------------------------------------------------- program constants
BacklogLimit == 25
NotifyLimit == 10

\* SQL NULL / Option::None in a time or duration column (no time or duration
\* of the model reaches it)
NULL == -99

\* ----------------------------------------------------------- input domains
Cids == {1001, 1002}
Callsigns == {<<"BOS", "APP">>, <<"NY", "CTR">>}
Positions == {"P1", "P2"}
LoginTimes == {0, 2}
Names == {"Ann", "Bob"}       \* vatsimData.realName, a descriptive field

\* VatsimData.cid is a string; the records of the model carry the number it
\* parses to, and this value in place of a string that parse::<i32>() refuses
\* ("abc", "", "99999999999")
NotAnI32 == 0

BaseController(cid) ==
    [cid |-> cid, callsign |-> <<"BOS", "APP">>, primary_position_id |-> "P1",
     login_time |-> 0, is_active |-> TRUE, name |-> "Ann"]

Differences(c, d) ==
    Cardinality({f \in {"callsign", "primary_position_id", "login_time", "is_active"} :
                    c[f] # d[f]})

\* controller records of the feed: the base record of every CID, and for the
\* first CID every record that differs from its base record in one field
Controllers ==
    {c \in [cid : Cids, callsign : Callsigns, primary_position_id : Positions,
            login_time : LoginTimes, is_active : BOOLEAN, name : Names] :
        /\ c.name = BaseController(c.cid).name
        /\ Differences(c, BaseController(c.cid)) <= (IF c.cid = 1001 THEN 1 ELSE 0)}

\* the same records, and the base record of the first CID under every name
DescribedControllers ==
    Controllers \cup {[BaseController(1001) EXCEPT !.name = n] : n \in Names}

DescribedLists == UNION {[1..k -> DescribedControllers] : k \in 0..MaxControllers}

\* the same records, and the base record of the first CID with login times
\* that differ from those above by less than a microsecond
PreciseControllers ==
    Controllers \cup {[BaseController(1001) EXCEPT !.login_time = t] : t \in {1, 3}}

PreciseLists == UNION {[1..k -> PreciseControllers] : k \in 0..MaxControllers}

\* records that parse_controller_parts refuses: a CID that is no i32, a
\* callsign of one part and a callsign of four parts
SkippedControllers ==
    {[BaseController(1001) EXCEPT !.cid = NotAnI32],
     [BaseController(1001) EXCEPT !.callsign = <<"BOS">>],
     [BaseController(1001) EXCEPT !.callsign = <<"BOS", "1", "2", "APP">>]}

\* a callsign of three parts has the prefix and suffix of the base callsign
ThreePartController == [BaseController(1001) EXCEPT !.callsign = <<"BOS", "1", "APP">>]

\* the base record of every CID next to the records that are skipped and the
\* record of three parts
MixedControllers ==
    {BaseController(cid) : cid \in Cids} \cup SkippedControllers \cup {ThreePartController}

MixedLists == UNION {[1..k -> MixedControllers] : k \in 0..MaxControllers}

ControllerLists == UNION {[1..k -> Controllers] : k \in 0..MaxControllers}

\* what the feed of the whole pipeline publishes: nobody, or one controller
FeedLists == {<<>>, <<BaseController(1001)>>}

\* a feed that lists a controller once or twice
RepeatingLists == {<<BaseController(1001)>>, <<BaseController(1001), BaseController(1001)>>}

Range(s) == {s[i] : i \in DOMAIN s}

Restrict(f, S) == [x \in S |-> f[x]]

\* ---------------------------------------------------------------- helpers.rs

\* timestamps are compared after truncation to whole microseconds
\* (a time unit of the model is half a microsecond)
Micros(t) == t \div 2

login_times_match(a, b) == Micros(a) = Micros(b)

parse_controller_parts(c) ==
    IF c.cid # NotAnI32 /\ Len(c.callsign) \in {2, 3}
    THEN [ok |-> TRUE, cid |-> c.cid,
          prefix |-> c.callsign[1], suffix |-> c.callsign[Len(c.callsign)],
          position_id |-> c.primary_position_id]
    ELSE [ok |-> FALSE]

ActiveIds(rows) == {i \in DOMAIN rows : rows[i].is_active}

\* ActiveState.active_callsign_sessions_map: (prefix, suffix) -> id of the
\* active callsign session
active_callsign_sessions_map(rows) ==
    LET ka == ActiveIds(rows)
    IN [k \in {<<rows[i].prefix, rows[i].suffix>> : i \in ka} |->
            CHOOSE i \in ka : <<rows[i].prefix, rows[i].suffix>> = k
                /\ \A j \in ka : <<rows[j].prefix, rows[j].suffix>> = k => j <= i]

load_active_state(db) ==
    LET act == ActiveIds(db.cs)
        last(c) == CHOOSE i \in act : db.cs[i].cid = c
                       /\ \A j \in act : db.cs[j].cid = c => j <= i
        ka == ActiveIds(db.ks)
        pa == ActiveIds(db.ps)
    IN [active_by_cid |->
            [c \in {db.cs[i].cid : i \in act} |->
                [controller_session_id |-> last(c),
                 login_time |-> db.cs[last(c)].login_time,
                 callsign_session_id |-> db.cs[last(c)].callsign_session_id,
                 position_id |-> db.cs[last(c)].primary_position_id,
                 position_session_id |-> db.cs[last(c)].position_session_id,
                 connected_callsign |-> db.cs[last(c)].connected_callsign]],
        active_callsign_sessions |-> ka,
        active_callsign_sessions_map |-> active_callsign_sessions_map(db.ks),
        active_position_sessions |->
            [p \in {db.ps[i].position_id : i \in pa} |->
                CHOOSE i \in pa : db.ps[i].position_id = p
                    /\ \A j \in pa : db.ps[j].position_id = p => j <= i]]

\* ---------------------------------------------------------------- queries.rs

\* the table without its partial unique index
NoControllerIndex(rows, cid) == TRUE

\* partial unique index controller_sessions (cid) WHERE is_active
ControllerUniqueOk(rows, cid) ==
    \A i \in DOMAIN rows : ~(rows[i].is_active /\ rows[i].cid = cid)

insert_controller_session(rows, controller, cid, seen_at, callsign_session_id, position_session_id) ==
    IF ControllerUniqueOk(rows, cid)
    THEN [ok |-> TRUE,
          rows |-> Append(rows,
            [cid |-> cid,
             login_time |-> Micros(controller.login_time) * 2,
             start_time |-> seen_at, end_time |-> NULL, duration |-> NULL,
             last_seen |-> seen_at, is_active |-> TRUE,
             name |-> controller.name,
             connected_callsign |-> controller.callsign,
             primary_position_id |-> controller.primary_position_id,
             callsign_session_id |-> callsign_session_id,
             position_session_id |-> position_session_id])]
    ELSE [ok |-> FALSE, rows |-> rows]

\* the UPDATE without SET connected_callsign
update_keeping_connected_callsign(rows, session_id, controller, seen_at) ==
    [rows EXCEPT ![session_id].last_seen = seen_at,
                 ![session_id].name = controller.name,
                 ![session_id].primary_position_id = controller.primary_position_id]

\* UPDATE controller_sessions SET last_seen, name, connected_callsign,
\* primary_position_id WHERE id = $1 (queries.rs 220-258): callsign_session_id
\* is not among the columns set
update_active_controller_session(rows, session_id, controller, seen_at) ==
    [rows EXCEPT ![session_id].last_seen = seen_at,
                 ![session_id].name = controller.name,
                 ![session_id].connected_callsign = controller.callsign,
                 ![session_id].primary_position_id = controller.primary_position_id]

\* UPDATE ... SET is_active = FALSE, end_time, duration, last_seen WHERE id = ANY(ids)
CompleteRows(rows, ids, ended_at) ==
    [i \in DOMAIN rows |->
        IF i \in ids
        THEN [rows[i] EXCEPT !.is_active = FALSE, !.end_time = ended_at,
                             !.duration = ended_at - rows[i].start_time,
                             !.last_seen = ended_at]
        ELSE rows[i]]

\* the UPDATE without "last_seen = $2"
complete_without_last_seen(rows, ids, ended_at) ==
    [i \in DOMAIN rows |->
        IF i \in ids
        THEN [rows[i] EXCEPT !.is_active = FALSE, !.end_time = ended_at,
                             !.duration = ended_at - rows[i].start_time]
        ELSE rows[i]]

complete_controller_sessions(rows, ids, ended_at) == CompleteRows(rows, ids, ended_at)

complete_callsign_sessions(rows, ids, ended_at) == CompleteRows(rows, ids, ended_at)

complete_position_sessions(rows, ids, ended_at) == CompleteRows(rows, ids, ended_at)

\* the UPDATE that leaves last_seen as it is
keep_callsign_session_last_seen(rows, id, seen_at) == rows

update_callsign_session_last_seen(rows, id, seen_at) ==
    IF id \in DOMAIN rows THEN [rows EXCEPT ![id].last_seen = seen_at] ELSE rows

update_position_session_last_seen(rows, id, seen_at) ==
    IF id \in DOMAIN rows THEN [rows EXCEPT ![id].last_seen = seen_at] ELSE rows

\* get_or_create_callsign_session that stamps a new row with a clock that is
\* ahead of the snapshot
get_or_create_at_wall_clock(rows, prefix, suffix, seen_at) ==
    LET found == {i \in DOMAIN rows :
                    rows[i].is_active /\ rows[i].prefix = prefix /\ rows[i].suffix = suffix}
    IN IF found # {}
       THEN LET existing == CHOOSE i \in found : TRUE
            IN [rows |-> update_callsign_session_last_seen(rows, existing, seen_at),
                id |-> existing]
       ELSE [rows |-> Append(rows,
                [prefix |-> prefix, suffix |-> suffix, start_time |-> seen_at + 1,
                 end_time |-> NULL, duration |-> NULL, last_seen |-> seen_at + 1,
                 is_active |-> TRUE]),
             id |-> Len(rows) + 1]

\* the lookup without "AND is_active = TRUE": a closed row of the pair is taken
\* into use again
get_or_reactivate_callsign_session(rows, prefix, suffix, seen_at) ==
    LET found == {i \in DOMAIN rows : rows[i].prefix = prefix /\ rows[i].suffix = suffix}
    IN IF found # {}
       THEN LET existing == CHOOSE i \in found : TRUE
            IN [rows |-> [rows EXCEPT ![existing].last_seen = seen_at,
                                      ![existing].is_active = TRUE],
                id |-> existing]
       ELSE [rows |-> Append(rows,
                [prefix |-> prefix, suffix |-> suffix, start_time |-> seen_at,
                 end_time |-> NULL, duration |-> NULL, last_seen |-> seen_at,
                 is_active |-> TRUE]),
             id |-> Len(rows) + 1]

get_or_create_callsign_session(rows, prefix, suffix, seen_at) ==
    LET found == {i \in DOMAIN rows :
                    rows[i].is_active /\ rows[i].prefix = prefix /\ rows[i].suffix = suffix}
    IN IF found # {}
       THEN LET existing == CHOOSE i \in found : TRUE
            IN [rows |-> update_callsign_session_last_seen(rows, existing, seen_at),
                id |-> existing]
       ELSE [rows |-> Append(rows,
                [prefix |-> prefix, suffix |-> suffix, start_time |-> seen_at,
                 end_time |-> NULL, duration |-> NULL, last_seen |-> seen_at,
                 is_active |-> TRUE]),
             id |-> Len(rows) + 1]

get_or_create_position_session(rows, position_id, seen_at) ==
    LET found == {i \in DOMAIN rows : rows[i].is_active /\ rows[i].position_id = position_id}
    IN IF found # {}
       THEN LET existing == CHOOSE i \in found : TRUE
            IN [rows |-> update_position_session_last_seen(rows, existing, seen_at),
                id |-> existing]
       ELSE [rows |-> Append(rows,
                [position_id |-> position_id, start_time |-> seen_at,
                 end_time |-> NULL, duration |-> NULL, last_seen |-> seen_at,
                 is_active |-> TRUE]),
             id |-> Len(rows) + 1]

\* ensure_callsign_session: the loaded (prefix, suffix) map first, the table second
ensure_callsign_session(rows, map, callsign_key, seen_at) ==
    IF callsign_key \in DOMAIN map
    THEN [rows |-> update_callsign_session_last_seen(rows, map[callsign_key], seen_at),
          map |-> map, id |-> map[callsign_key], created |-> FALSE]
    ELSE LET r == get_or_create_callsign_session(rows, callsign_key[1], callsign_key[2], seen_at)
         IN [rows |-> r.rows,
             map |-> [k \in DOMAIN map \cup {callsign_key} |->
                        IF k = callsign_key THEN r.id ELSE map[k]],
             id |-> r.id, created |-> r.id \notin DOMAIN rows]

ensure_position_session(rows, map, position_id, seen_at) ==
    IF position_id \in DOMAIN map
    THEN [rows |-> update_position_session_last_seen(rows, map[position_id], seen_at),
          map |-> map, id |-> map[position_id], created |-> FALSE]
    ELSE LET r == get_or_create_position_session(rows, position_id, seen_at)
         IN [rows |-> r.rows,
             map |-> [k \in DOMAIN map \cup {position_id} |->
                        IF k = position_id THEN r.id ELSE map[k]],
             id |-> r.id, created |-> r.id \notin DOMAIN rows]

\* the finalizer that closes every loaded callsign session, confirmed or not
finalize_every_loaded(rows, active_callsign_sessions, active_callsign_ids, ended_at) ==
    IF active_callsign_sessions # {}
    THEN complete_callsign_sessions(rows, active_callsign_sessions, ended_at)
    ELSE rows

finalize_callsign_sessions(rows, active_callsign_sessions, active_callsign_ids, ended_at) ==
    LET to_close_callsign == active_callsign_sessions \ active_callsign_ids
    IN IF to_close_callsign # {}
       THEN complete_callsign_sessions(rows, to_close_callsign, ended_at)
       ELSE rows

finalize_position_sessions(rows, active_position_sessions, active_position_ids, ended_at) ==
    LET to_close_positions ==
            {active_position_sessions[p] :
                p \in {q \in DOMAIN active_position_sessions : q \notin active_position_ids}}
    IN IF to_close_positions # {}
       THEN complete_position_sessions(rows, to_close_positions, ended_at)
       ELSE rows

\* ------------------------------------------- main.rs: process_datafeed_payload

UpdateExisting(session_id, controller, callsign_session_id, position_session_id) ==
    [type |-> "UpdateExisting", session_id |-> session_id, controller |-> controller,
     callsign_session_id |-> callsign_session_id,
     position_session_id |-> position_session_id]

CreateNew(controller, callsign_key, position_id, cid) ==
    [type |-> "CreateNew", controller |-> controller, callsign_key |-> callsign_key,
     position_id |-> position_id, cid |-> cid]

Close(existing, cid, reason) ==
    [type |-> "Close", session_id |-> existing.controller_session_id, cid |-> cid,
     callsign_session_id |-> existing.callsign_session_id,
     position_session_id |-> existing.position_session_id,
     connected_callsign |-> existing.connected_callsign, reason |-> reason]

\* the comparison that leaves the position out
same_login_time(existing, controller, position_id) ==
    login_times_match(existing.login_time, controller.login_time)

\* the tracked session is continued by the record (main.rs 343-344)
same_login_and_position(existing, controller, position_id) ==
    /\ login_times_match(existing.login_time, controller.login_time)
    /\ existing.position_id = position_id

\* the first pass that does not look at is_active
classify_as_active(st, controller, p) ==
    LET tracked == p.cid \in DOMAIN st.active_by_cid
        existing == st.active_by_cid[p.cid]
        removed == Restrict(st.active_by_cid, DOMAIN st.active_by_cid \ {p.cid})
    IN IF tracked
       THEN IF same_login_and_position(existing, controller, p.position_id)
            THEN [st EXCEPT
                   !.active_by_cid = removed,
                   !.controller_actions = Append(@,
                       UpdateExisting(existing.controller_session_id, controller,
                           existing.callsign_session_id, existing.position_session_id)),
                   !.active_callsign_ids = @ \cup {existing.callsign_session_id},
                   !.active_position_ids = @ \cup {existing.position_id}]
            ELSE [st EXCEPT
                   !.active_by_cid = removed,
                   !.controller_actions = @ \o
                       <<Close(existing, p.cid, "ReconnectedOrChangedPosition"),
                         CreateNew(controller, <<p.prefix, p.suffix>>,
                                   p.position_id, p.cid)>>]
       ELSE [st EXCEPT
               !.controller_actions = Append(@,
                   CreateNew(controller, <<p.prefix, p.suffix>>, p.position_id, p.cid))]

\* first pass, one controller record that parsed to p (main.rs 334-406)
ClassifyParsed(st, controller, p) ==
    LET tracked == p.cid \in DOMAIN st.active_by_cid
        existing == st.active_by_cid[p.cid]
        removed == Restrict(st.active_by_cid, DOMAIN st.active_by_cid \ {p.cid})
    IN IF controller.is_active
       THEN IF tracked
            THEN IF same_login_and_position(existing, controller, p.position_id)
                 THEN [st EXCEPT
                        !.active_by_cid = removed,
                        !.controller_actions = Append(@,
                            UpdateExisting(existing.controller_session_id, controller,
                                existing.callsign_session_id, existing.position_session_id)),
                        !.active_callsign_ids = @ \cup {existing.callsign_session_id},
                        !.active_position_ids = @ \cup {existing.position_id}]
                 ELSE [st EXCEPT
                        !.active_by_cid = removed,
                        !.controller_actions = @ \o
                            <<Close(existing, p.cid, "ReconnectedOrChangedPosition"),
                              CreateNew(controller, <<p.prefix, p.suffix>>,
                                        p.position_id, p.cid)>>]
            ELSE [st EXCEPT
                    !.controller_actions = Append(@,
                        CreateNew(controller, <<p.prefix, p.suffix>>, p.position_id, p.cid))]
       ELSE IF tracked
            THEN [st EXCEPT
                    !.active_by_cid = removed,
                    !.controller_actions = Append(@,
                        Close(existing, p.cid, "DeactivatedPosition"))]
            ELSE st

\* the first pass that takes the identifiers of a record as they come,
\* whether they parse or not
classify_unparsed(st, controller) ==
    ClassifyParsed(st, controller,
        [ok |-> TRUE, cid |-> controller.cid, prefix |-> controller.callsign[1],
         suffix |-> controller.callsign[Len(controller.callsign)],
         position_id |-> controller.primary_position_id])

\* the first pass in which a record that does not parse still takes the
\* entry of its CID out of the map
skip_and_consume(st, controller) ==
    LET p == parse_controller_parts(controller)
    IN IF ~p.ok
       THEN [st EXCEPT !.active_by_cid =
                Restrict(@, DOMAIN @ \ {controller.cid})]
       ELSE ClassifyParsed(st, controller, p)

\* first pass, one controller record: a record that does not parse is
\* skipped (main.rs 315-332)
ClassifyController(st, controller) ==
    LET p == parse_controller_parts(controller)
    IN IF ~p.ok THEN st ELSE ClassifyParsed(st, controller, p)

RECURSIVE ClassifyAll(_, _)
ClassifyAll(st, controllers) ==
    IF controllers = <<>> THEN st
    ELSE ClassifyAll(ClassifyController(st, Head(controllers)), Tail(controllers))

\* the reconciler that leaves the rest of the map alone
missing_closes_none(active_by_cid) == <<>>

\* the entries left in the map, in some order (the order has no effect: all
\* closes are written by one statement)
RECURSIVE MissingCloses(_)
MissingCloses(active_by_cid) ==
    IF DOMAIN active_by_cid = {} THEN <<>>
    ELSE LET cid == CHOOSE c \in DOMAIN active_by_cid :
                        \A d \in DOMAIN active_by_cid : c <= d
         IN <<Close(active_by_cid[cid], cid, "MissingFromDatafeed")>>
            \o MissingCloses(Restrict(active_by_cid, DOMAIN active_by_cid \ {cid}))

\* controller_actions of a snapshot: first pass plus the closes of the rest
Reconcile(existing_state, datafeed) ==
    LET st == ClassifyAll(
                [active_by_cid |-> existing_state.active_by_cid,
                 controller_actions |-> <<>>,
                 active_callsign_ids |-> {},
                 active_position_ids |-> {}],
                datafeed.controllers)
    IN [st EXCEPT !.controller_actions = @ \o MissingCloses(st.active_by_cid)]

\* the second pass without the UPDATE of the closes ahead of the loop
close_nothing_first(cs, controller_actions, updated_at) == cs

\* second pass: every Close in one UPDATE (main.rs 427-443)
CloseControllerSessions(cs, controller_actions, updated_at) ==
    LET close_controller_session_ids ==
            {controller_actions[i].session_id :
                i \in {j \in DOMAIN controller_actions : controller_actions[j].type = "Close"}}
    IN IF close_controller_session_ids # {}
       THEN complete_controller_sessions(cs, close_controller_session_ids, updated_at)
       ELSE cs

ApplyUpdateExisting(w, action, updated_at) ==
    [w EXCEPT
        !.ks = update_callsign_session_last_seen(@, action.callsign_session_id, updated_at),
        !.ps = update_position_session_last_seen(@, action.position_session_id, updated_at),
        !.cs = update_active_controller_session(@, action.session_id, action.controller,
                                                updated_at),
        !.active_callsign_ids = @ \cup {action.callsign_session_id},
        !.active_position_ids = @ \cup {action.controller.primary_position_id}]

\* CreateNew without active_callsign_ids.insert / active_position_ids.insert
ApplyCreateNewUnconfirmed(w, action, updated_at) ==
    LET k == ensure_callsign_session(w.ks, w.callsign_map, action.callsign_key, updated_at)
        p == ensure_position_session(w.ps, w.position_map, action.position_id, updated_at)
        c == insert_controller_session(w.cs, action.controller, action.cid, updated_at,
                                       k.id, p.id)
    IN IF c.ok
       THEN [w EXCEPT
                !.ks = k.rows, !.callsign_map = k.map,
                !.ps = p.rows, !.position_map = p.map,
                !.cs = c.rows]
       ELSE [w EXCEPT !.ok = FALSE]

\* CreateNew that opens a callsign and a position session of its own every time
ApplyCreateNewOwnSessions(w, action, updated_at) ==
    LET ks == Append(w.ks,
                [prefix |-> action.callsign_key[1], suffix |-> action.callsign_key[2],
                 start_time |-> updated_at, end_time |-> NULL, duration |-> NULL,
                 last_seen |-> updated_at, is_active |-> TRUE])
        ps == Append(w.ps,
                [position_id |-> action.position_id, start_time |-> updated_at,
                 end_time |-> NULL, duration |-> NULL, last_seen |-> updated_at,
                 is_active |-> TRUE])
        c == insert_controller_session(w.cs, action.controller, action.cid, updated_at,
                                       Len(ks), Len(ps))
    IN IF c.ok
       THEN [w EXCEPT
                !.ks = ks, !.ps = ps, !.cs = c.rows,
                !.active_callsign_ids = @ \cup {Len(ks)},
                !.active_position_ids = @ \cup {action.position_id}]
       ELSE [w EXCEPT !.ok = FALSE]

ApplyCreateNew(w, action, updated_at) ==
    LET k == ensure_callsign_session(w.ks, w.callsign_map, action.callsign_key, updated_at)
        p == ensure_position_session(w.ps, w.position_map, action.position_id, updated_at)
        c == insert_controller_session(w.cs, action.controller, action.cid, updated_at,
                                       k.id, p.id)
    IN IF c.ok
       THEN [w EXCEPT
                !.ks = k.rows, !.callsign_map = k.map,
                !.ps = p.rows, !.position_map = p.map,
                !.cs = c.rows,
                !.active_callsign_ids = @ \cup {k.id},
                !.active_position_ids = @ \cup {action.position_id}]
       ELSE [w EXCEPT !.ok = FALSE]

\* one turn of the loop over controller_actions (a Close does nothing here)
ApplyAction(w, action, updated_at) ==
    CASE action.type = "UpdateExisting" -> ApplyUpdateExisting(w, action, updated_at)
      [] action.type = "CreateNew" -> ApplyCreateNew(w, action, updated_at)
      [] OTHER -> w

\* a loop that ends after its first turn
apply_first_action(w, controller_actions, updated_at) ==
    IF controller_actions = <<>> THEN w
    ELSE ApplyAction(w, Head(controller_actions), updated_at)

\* updates and inserts in list order; after a failed statement nothing more runs
RECURSIVE ApplyActions(_, _, _)
ApplyActions(w, controller_actions, updated_at) ==
    IF controller_actions = <<>> \/ ~w.ok THEN w
    ELSE ApplyActions(ApplyAction(w, Head(controller_actions), updated_at),
                      Tail(controller_actions), updated_at)

\* the transaction of a snapshot when the loop over controller_actions starts
AfterCloses(db, existing_state, r, updated_at) ==
    [ok |-> TRUE,
     cs |-> CloseControllerSessions(db.cs, r.controller_actions, updated_at),
     ks |-> db.ks, ps |-> db.ps,
     callsign_map |-> existing_state.active_callsign_sessions_map,
     position_map |-> existing_state.active_position_sessions,
     active_callsign_ids |-> r.active_callsign_ids,
     active_position_ids |-> r.active_position_ids]

\* one snapshot in its own transaction: the new session tables, or the old
\* ones with ok = FALSE when a statement failed and the transaction was dropped
process_datafeed_payload(db, datafeed) ==
    LET existing_state == load_active_state(db)
        r == Reconcile(existing_state, datafeed)
        w0 == AfterCloses(db, existing_state, r, datafeed.updated_at)
        w == ApplyActions(w0, r.controller_actions, datafeed.updated_at)
    IN IF w.ok
       THEN [ok |-> TRUE, cs |-> w.cs,
             ks |-> finalize_callsign_sessions(w.ks,
                        existing_state.active_callsign_sessions,
                        w.active_callsign_ids, datafeed.updated_at),
             ps |-> finalize_position_sessions(w.ps, w.position_map,
                        w.active_position_ids, datafeed.updated_at)]
       ELSE [ok |-> FALSE, cs |-> db.cs, ks |-> db.ks, ps |-> db.ps]

\* ------------------------------------------------------------------- state

VARIABLES
    controller_sessions,    \* table controller_sessions
    callsign_sessions,      \* table callsign_sessions
    position_sessions,      \* table position_sessions
    datafeed_queue,         \* table datafeed_queue (committed rows)
    datafeed_payloads,      \* table datafeed_payloads, in insertion order
    datafeed_messages,      \* table datafeed_messages
    upstream,               \* the document the feed URL serves now
    in_memory_queue,        \* FetcherState.in_memory_queue
    ticks,                  \* iterations of fetcher_loop so far (the fetcher's clock)
    enqueued,               \* queue rows ever committed (the next row id is enqueued + 1)
    last_attempted_update,
    last_successful_update,
    last_error,
    shutdown,               \* the processes whose CancellationToken is cancelled
    fetcher_pc,             \* fetcher_loop: "running" | "exited" (it returned Ok)
    pc,                     \* processor: "draining" | "batch" | "listening" | "stopped"
    limit,                  \* limit of the running process_pending_datafeeds
    batch,                  \* rows claimed and not yet handled
    tx,                     \* uncommitted writes of the queue transaction
    listener,               \* PgListener is connected
    notified,               \* a notification is waiting in the listener
    stops,                  \* times the processor ended with an error or crashed
    last_processed_datafeed,
    applied,                \* history: snapshots whose session writes were committed
    peer                    \* a second datafeed_processor on the same database

vars == <<controller_sessions, callsign_sessions, position_sessions, datafeed_queue,
          datafeed_payloads, datafeed_messages, upstream, in_memory_queue, ticks,
          enqueued, last_attempted_update, last_successful_update, last_error,
          shutdown, fetcher_pc, pc, limit, batch, tx, listener, notified, stops, last_processed_datafeed,
          applied, peer>>

session_vars == <<controller_sessions, callsign_sessions, position_sessions>>

fetcher_vars == <<upstream, in_memory_queue, ticks, enqueued, last_attempted_update,
                  last_successful_update, last_error,
                  shutdown, fetcher_pc>>

EmptyTx == [payloads |-> <<>>, messages |-> {}, deleted |-> {}, latest |-> NULL]

\* the second processor: not started, or started on its backlog
PeerOff ==
    [pc |-> "off", batch |-> <<>>, tx |-> EmptyTx, listener |-> FALSE,
     notified |-> FALSE, applied |-> <<>>]

PeerStarted == [PeerOff EXCEPT !.pc = "draining"]

Start ==
    /\ controller_sessions = <<>>
    /\ callsign_sessions = <<>>
    /\ position_sessions = <<>>
    /\ datafeed_queue = {}
    /\ datafeed_payloads = <<>>
    /\ datafeed_messages = {}
    /\ upstream = [updated_at |-> 0, controllers |-> <<>>, wellformed |-> TRUE]
    /\ in_memory_queue = <<>>
    /\ ticks = 0
    /\ enqueued = 0
    /\ last_attempted_update = NULL
    /\ last_successful_update = NULL
    /\ last_error = "None"
    /\ shutdown = {}
    /\ fetcher_pc = "running"
    /\ pc = "draining"
    /\ limit = BacklogLimit
    /\ batch = <<>>
    /\ tx = EmptyTx
    /\ listener = FALSE
    /\ notified = FALSE
    /\ stops = 0
    /\ last_processed_datafeed = NULL
    /\ applied = <<>>

Init == Start /\ peer = PeerOff

\* ------------------------------------------------------------ datafeed_fetcher

\* the documents the feed may serve next: the same one again, or a newer one
PublishedFrom(doc, lists) ==
    {doc} \cup
    [updated_at : {doc.updated_at + 1}, controllers : lists, wellformed : {TRUE}]
    \cup {[updated_at |-> doc.updated_at + 1, controllers |-> <<>>, wellformed |-> FALSE]}

Published(doc) == PublishedFrom(doc, FeedLists)

\* enqueue_datafeed: the rows of `items` inserted in order, ids enqueued+1, ...
QueueRows(items, first_id) ==
    {[id |-> first_id + i - 1, updated_at |-> items[i].updated_at, payload |-> items[i]] :
        i \in DOMAIN items}

\* the queue row of a payload
QueueRow(id, doc) == [id |-> id, updated_at |-> doc.updated_at, payload |-> doc]

\* how a call of enqueue_datafeed ends: with Ok, or with the error of
\* pool.begin, of the INSERT, of pg_notify or of tx.commit
Failures == {"begin", "insert", "notify", "commit"}

Outcomes == {"ok"} \cup Failures

\* enqueue_datafeed with its INSERT run on the pool, outside the transaction
enqueue_on_pool(queue, id, doc, outcome) ==
    LET inserted == IF outcome \notin {"begin", "insert"} THEN {QueueRow(id, doc)} ELSE {}
        notified_ids == IF inserted # {} /\ outcome # "notify" THEN {id} ELSE {}
        committed == outcome = "ok"
    IN [ok |-> committed,
        queue |-> queue \cup inserted,
        delivered |-> IF committed THEN notified_ids ELSE {}]

\* enqueue_datafeed: INSERT and pg_notify in one transaction; the row is in
\* the table and the notification is delivered when the commit returns Ok,
\* and an error before it drops the transaction
enqueue_datafeed(queue, id, doc, outcome) ==
    LET inserted == IF outcome \notin {"begin", "insert"} THEN {QueueRow(id, doc)} ELSE {}
        notified_ids == IF inserted # {} /\ outcome # "notify" THEN {id} ELSE {}
        committed == outcome = "ok"
    IN [ok |-> committed,
        queue |-> IF committed THEN queue \cup inserted ELSE queue,
        delivered |-> IF committed THEN notified_ids ELSE {}]

\* the next call of enqueue_datafeed of an iteration: st.next is the id of the
\* next committed row
Enqueue(st, doc, outcome) ==
    LET r == enqueue_datafeed(st.queue, st.next, doc, outcome)
    IN [queue |-> r.queue, delivered |-> st.delivered \cup r.delivered,
        next |-> IF r.ok THEN st.next + 1 ELSE st.next]

\* the items enqueued from the tail of the list to its head
RECURSIVE enqueue_from_tail(_, _)
enqueue_from_tail(st, items) ==
    IF items = <<>> THEN st
    ELSE enqueue_from_tail(Enqueue(st, items[Len(items)], "ok"),
                           SubSeq(items, 1, Len(items) - 1))

\* clear_in_memory_queue: pop_front and enqueue_datafeed, item after item
RECURSIVE EnqueueAll(_, _)
EnqueueAll(st, items) ==
    IF items = <<>> THEN st
    ELSE EnqueueAll(Enqueue(st, Head(items), "ok"), Tail(items))

\* the drain that puts the failed item back at the tail (push_back)
clear_and_push_back(queue, n) ==
    [done |-> SubSeq(queue, 1, n),
     left |-> IF n < Len(queue)
              THEN Append(SubSeq(queue, n + 2, Len(queue)), queue[n + 1])
              ELSE <<>>]

\* the drain that does not put the failed item back (no push_front)
clear_without_push_front(queue, n) ==
    [done |-> SubSeq(queue, 1, n), left |-> SubSeq(queue, n + 2, Len(queue))]

\* clear_in_memory_queue: the first n items are enqueued; the next enqueue, if
\* there is one, fails and its item goes back to the front
clear_in_memory_queue(queue, n) ==
    [done |-> SubSeq(queue, 1, n), left |-> SubSeq(queue, n + 1, Len(queue))]

\* the buffer that takes every fetched payload
push_back_fetched(left, doc, fetch_ok, enqueue_ok) ==
    IF fetch_ok THEN Append(left, doc) ELSE left

\* the fetched payload goes to the tail of the buffer when its enqueue failed
push_back(left, doc, fetch_ok, enqueue_ok) ==
    IF fetch_ok /\ ~enqueue_ok THEN Append(left, doc) ELSE left

\* last_successful_update written after every fetch, enqueued or not
successful_when_fetched(last, now, fetch_ok, enqueue_ok) ==
    IF fetch_ok THEN now ELSE last

\* last_successful_update is written in the Ok arm of the live enqueue only
successful_update(last, now, fetch_ok, enqueue_ok) ==
    IF fetch_ok /\ enqueue_ok THEN now ELSE last

\* `if shutdown.is_cancelled() { break; }` at the end of the iteration; after
\* a failed fetch (`continue`) the select at the top of the loop sees the
\* cancelled token
exit_after_iteration(cancelled) ==
    IF "fetcher" \in cancelled THEN "exited" ELSE "running"

\* one iteration of fetcher_loop: the drain enqueues n buffered items and, when
\* items are left, its next enqueue ends with `drain`; the live enqueue ends
\* with `live`
Tick(n, doc, fetch_ok, drain, live) ==
    LET drained == clear_in_memory_queue(in_memory_queue, n)
        enqueue_ok == live = "ok"
        d1 == EnqueueAll([queue |-> datafeed_queue, delivered |-> {}, next |-> enqueued + 1],
                         drained.done)
        d2 == IF drained.left # <<>> THEN Enqueue(d1, Head(drained.left), drain) ELSE d1
        d3 == IF fetch_ok THEN Enqueue(d2, doc, live) ELSE d2
        now == ticks + 1
    IN /\ fetcher_pc = "running"
       /\ ticks' = now
       /\ upstream' = doc
       /\ datafeed_queue' = d3.queue
       /\ enqueued' = d3.next - 1
       /\ notified' = (notified \/ (listener /\ d3.delivered # {}))
       /\ peer' = [peer EXCEPT !.notified = (@ \/ (peer.listener /\ d3.delivered # {}))]
       /\ last_attempted_update' = now
       /\ in_memory_queue' = push_back(drained.left, doc, fetch_ok, enqueue_ok)
       /\ last_successful_update' =
            successful_update(last_successful_update, now, fetch_ok, enqueue_ok)
       /\ last_error' = IF ~fetch_ok THEN "Fetch" ELSE IF ~enqueue_ok THEN "Db" ELSE last_error
       /\ fetcher_pc' = exit_after_iteration(shutdown)
       /\ UNCHANGED <<session_vars, datafeed_payloads, datafeed_messages, pc, limit,
                      batch, tx, listener, stops, last_processed_datafeed, applied,
                      shutdown>>

\* the iterations fetcher_loop may take: the drain enqueues n buffered items
\* and fails at the next one, the fetch succeeds or fails, the live enqueue
\* succeeds or fails
IterationOn(docs) ==
    \E n \in 0..Len(in_memory_queue), doc \in docs,
       fetch_ok \in BOOLEAN, drain \in Failures, live \in Outcomes :
        /\ (~fetch_ok => live = "ok" /\ doc = upstream)
        /\ (n = Len(in_memory_queue) => drain = "begin")
        /\ Tick(n, doc, fetch_ok, drain, live)

Iteration == IterationOn(Published(upstream))

FetcherLoop == ticks < MaxTicks /\ Iteration

\* ---------------------------------------------------------- datafeed_processor

Min(a, b) == IF a < b THEN a ELSE b

\* the SELECT with ORDER BY id in place of ORDER BY updated_at
fetch_batch_by_id(queue, lim) ==
    {b \in [1..Min(lim, Cardinality(queue)) -> queue] :
        /\ \A i, j \in DOMAIN b : i < j => b[i].id < b[j].id
        /\ \A r \in queue \ Range(b) : \A i \in DOMAIN b : b[i].id < r.id}

\* SELECT ... ORDER BY updated_at FOR UPDATE SKIP LOCKED LIMIT $1: every answer
\* the statement may give (rows of equal updated_at come in any order)
fetch_datafeed_batch(queue, lim) ==
    {b \in [1..Min(lim, Cardinality(queue)) -> queue] :
        /\ \A i, j \in DOMAIN b : i < j => b[i] # b[j] /\ b[i].updated_at <= b[j].updated_at
        /\ \A r \in queue \ Range(b) : \A i \in DOMAIN b : b[i].updated_at <= r.updated_at}

\* the upsert that reports every payload as new (the conflict still inserts nothing)
upsert_reports_new(visible, message) ==
    LET same == {i \in DOMAIN visible : visible[i].updated_at = message.updated_at}
    IN IF same = {}
       THEN [rows |-> Append(visible, [updated_at |-> message.updated_at,
                                       payload |-> message.payload]),
             payload_id |-> Len(visible) + 1, new_payload |-> TRUE]
       ELSE [rows |-> visible, payload_id |-> CHOOSE i \in same : TRUE,
             new_payload |-> TRUE]

\* the INSERT without its ON CONFLICT clause, on a table without the unique key
upsert_without_conflict_clause(visible, message) ==
    [rows |-> Append(visible, [updated_at |-> message.updated_at,
                               payload |-> message.payload]),
     payload_id |-> Len(visible) + 1, new_payload |-> TRUE]

\* INSERT ... ON CONFLICT (updated_at) DO NOTHING RETURNING id, else SELECT id
upsert_datafeed_payload(visible, message) ==
    LET same == {i \in DOMAIN visible : visible[i].updated_at = message.updated_at}
    IN IF same = {}
       THEN [rows |-> Append(visible, [updated_at |-> message.updated_at,
                                       payload |-> message.payload]),
             payload_id |-> Len(visible) + 1, new_payload |-> TRUE]
       ELSE [rows |-> visible, payload_id |-> CHOOSE i \in same : TRUE,
             new_payload |-> FALSE]

\* INSERT INTO datafeed_messages (id, queue_id, payload_id, ...)
insert_datafeed_message(messages, queue_id, payload_id) ==
    messages \cup {[queue_id |-> queue_id, payload_id |-> payload_id]}

\* the DELETE that matches no row
delete_nothing(deleted, id) == deleted

\* DELETE FROM datafeed_queue WHERE id = $1 (the ids deleted by the transaction)
delete_queued_datafeed(deleted, id) == deleted \cup {id}

\* what the queue transaction reads from datafeed_payloads: committed rows and its own
Visible == datafeed_payloads \o tx.payloads

\* rows a processor holds locked: claimed by its open queue transaction
Locks(state, claimed, deleted) ==
    IF state = "batch" THEN {claimed[i].id : i \in DOMAIN claimed} \cup deleted ELSE {}

Locked == Locks(pc, batch, tx.deleted)

PeerLocked == Locks(peer.pc, peer.batch, peer.tx.deleted)

\* SKIP LOCKED: the rows no other transaction holds
Unlocked(queue, locked) == {q \in queue : q.id \notin locked}

\* the INSERT into datafeed_payloads waits while another open transaction has
\* inserted a row of the same updated_at
Blocked(message, other) ==
    /\ message.payload.wellformed
    /\ \E i \in DOMAIN other.payloads : other.payloads[i].updated_at = message.updated_at

\* a deserialization that accepts every payload
from_value_unchecked(payload) == TRUE

\* serde_json::from_value::<DatafeedRoot>(message.payload) returns Ok
from_value(payload) == payload.wellformed

\* an error of process_datafeed_payload that is logged and passed over
session_error_passed_over(new_payload, r) == FALSE

\* `if new_payload { if let Err(e) = process_datafeed_payload(..) { .. } }`
session_writes_failed(new_payload, r) == new_payload /\ ~r.ok

ClaimBatch ==
    /\ pc = "draining"
    /\ \E messages \in fetch_datafeed_batch(Unlocked(datafeed_queue, PeerLocked), limit) :
        IF messages = <<>>
        THEN /\ pc' = "listening"
             /\ listener' = TRUE
             /\ UNCHANGED batch
        ELSE /\ pc' = "batch"
             /\ batch' = messages
             /\ UNCHANGED listener
    /\ tx' = EmptyTx
    /\ UNCHANGED <<session_vars, datafeed_queue, datafeed_payloads, datafeed_messages,
                   fetcher_vars, limit, notified, stops, last_processed_datafeed,
                   applied, peer>>

Stop ==
    /\ pc' = "stopped"
    /\ batch' = <<>>
    /\ tx' = EmptyTx
    /\ listener' = FALSE
    /\ notified' = FALSE
    /\ stops' = stops + 1

\* one turn of the for loop of process_pending_datafeeds
ProcessMessage ==
    /\ pc = "batch"
    /\ batch # <<>>
    /\ ~Blocked(Head(batch), peer.tx)
    /\ LET message == Head(batch)
           up == upsert_datafeed_payload(Visible, message)
           r == process_datafeed_payload(
                    [cs |-> controller_sessions, ks |-> callsign_sessions,
                     ps |-> position_sessions], message.payload)
       IN IF ~from_value(message.payload)
          THEN Stop /\ UNCHANGED <<session_vars, applied>>
          ELSE IF session_writes_failed(up.new_payload, r)
          THEN Stop /\ UNCHANGED <<session_vars, applied>>
          ELSE /\ IF up.new_payload
                  THEN /\ controller_sessions' = r.cs
                       /\ callsign_sessions' = r.ks
                       /\ position_sessions' = r.ps
                       /\ applied' = Append(applied, [queue_id |-> message.id,
                                                      updated_at |-> message.updated_at])
                  ELSE UNCHANGED <<session_vars, applied>>
               /\ tx' = [payloads |-> SubSeq(up.rows, Len(datafeed_payloads) + 1,
                                             Len(up.rows)),
                         messages |-> insert_datafeed_message(tx.messages, message.id,
                                                              up.payload_id),
                         deleted |-> delete_queued_datafeed(tx.deleted, message.id),
                         latest |-> message.updated_at]
               /\ batch' = Tail(batch)
               /\ UNCHANGED <<pc, listener, notified, stops>>
    /\ UNCHANGED <<datafeed_queue, datafeed_payloads, datafeed_messages, fetcher_vars,
                   limit, last_processed_datafeed, peer>>

\* a commit that returns to the listener after one batch
CommitBatchOnce ==
    /\ pc = "batch"
    /\ batch = <<>>
    /\ datafeed_payloads' = datafeed_payloads \o tx.payloads
    /\ datafeed_messages' = datafeed_messages \cup tx.messages
    /\ datafeed_queue' = {q \in datafeed_queue : q.id \notin tx.deleted}
    /\ last_processed_datafeed' = tx.latest
    /\ tx' = EmptyTx
    /\ pc' = "listening"
    /\ listener' = TRUE
    /\ UNCHANGED <<session_vars, fetcher_vars, limit, batch, notified, stops, applied,
                   peer>>

\* tx.commit() after the for loop; the loop claims the next batch
CommitBatch ==
    /\ pc = "batch"
    /\ batch = <<>>
    /\ datafeed_payloads' = datafeed_payloads \o tx.payloads
    /\ datafeed_messages' = datafeed_messages \cup tx.messages
    /\ datafeed_queue' = {q \in datafeed_queue : q.id \notin tx.deleted}
    /\ last_processed_datafeed' = tx.latest
    /\ tx' = EmptyTx
    /\ pc' = "draining"
    /\ UNCHANGED <<session_vars, fetcher_vars, limit, batch, listener, notified, stops,
                   applied, peer>>

\* the process dies, or a statement or the commit of the queue transaction fails:
\* the queue transaction is rolled back and the processor ends
Abort ==
    /\ pc = "batch"
    /\ stops < MaxAborts
    /\ Stop
    /\ UNCHANGED <<session_vars, datafeed_queue, datafeed_payloads, datafeed_messages,
                   fetcher_vars, limit, last_processed_datafeed, applied, peer>>

\* the processor is started again: backlog first
Restart ==
    /\ pc = "stopped"
    /\ stops <= MaxAborts
    /\ pc' = "draining"
    /\ limit' \in {BacklogLimit, ScaledLimit}
    /\ last_processed_datafeed' = NULL
    /\ UNCHANGED <<session_vars, datafeed_queue, datafeed_payloads, datafeed_messages,
                   fetcher_vars, batch, tx, listener, notified, stops, applied, peer>>

\* listener.recv() returns a notification
Notification ==
    /\ pc = "listening"
    /\ notified
    /\ notified' = FALSE
    /\ pc' = "draining"
    /\ limit' \in {NotifyLimit, ScaledLimit}
    /\ UNCHANGED <<session_vars, datafeed_queue, datafeed_payloads, datafeed_messages,
                   fetcher_vars, batch, tx, listener, stops, last_processed_datafeed,
                   applied, peer>>

Next ==
    \/ FetcherLoop
    \/ ClaimBatch
    \/ ProcessMessage
    \/ CommitBatch
    \/ Abort
    \/ Restart
    \/ Notification

Spec == Init /\ [][Next]_vars

\* ------------------------- the fetcher next to one run of the processor
\* (no crash and no restart of the processor; the fetcher runs longer)

FetcherLoopOutage == ticks < MaxOutageTicks /\ Iteration

NextRun ==
    \/ FetcherLoopOutage
    \/ ClaimBatch
    \/ ProcessMessage
    \/ CommitBatch
    \/ Notification

SpecRun == Init /\ [][NextRun]_vars

\* ------------- the pipeline on a feed that may list a controller twice
\* (no crash and no restart of the processor)

FetcherLoopRepeating ==
    /\ ticks < MaxRepeatingTicks
    /\ IterationOn(PublishedFrom(upstream, RepeatingLists))

NextRepeating ==
    \/ FetcherLoopRepeating
    \/ ClaimBatch
    \/ ProcessMessage
    \/ CommitBatch
    \/ Notification

SpecRepeating == Init /\ [][NextRepeating]_vars

\* ------------------------------------------------ the pipeline with shutdown
\* The fetcher and the processor are two processes, each with its own
\* CancellationToken, cancelled by its shutdown_listener on SIGINT/SIGTERM.

Processes == {"fetcher", "processor"}

\* shutdown_listener: token.cancel()
Cancel ==
    /\ \E who \in Processes \ shutdown : shutdown' = shutdown \cup {who}
    /\ UNCHANGED <<session_vars, datafeed_queue, datafeed_payloads, datafeed_messages,
                   upstream, in_memory_queue, ticks, enqueued, last_attempted_update,
                   last_successful_update, last_error, fetcher_pc, pc, limit, batch, tx,
                   listener, notified, stops, last_processed_datafeed, applied, peer>>

\* fetcher_loop, select at the top of the loop (not in the first iteration):
\* shutdown.cancelled() wins over the sleep
FetcherCancelled ==
    /\ fetcher_pc = "running"
    /\ ticks > 0
    /\ "fetcher" \in shutdown
    /\ fetcher_pc' = "exited"
    /\ UNCHANGED <<session_vars, datafeed_queue, datafeed_payloads, datafeed_messages,
                   upstream, in_memory_queue, ticks, enqueued, last_attempted_update,
                   last_successful_update, last_error, shutdown, pc, limit, batch, tx,
                   listener, notified, stops, last_processed_datafeed, applied, peer>>

\* a token that every await of the processor looks at
cancelled_at_any_await(state, cancelled) ==
    state \in {"draining", "batch", "listening"} /\ "processor" \in cancelled

\* run_datafeed_processing_loop, select of the loop: shutdown.cancelled()
select_cancelled(state, cancelled) ==
    state = "listening" /\ "processor" \in cancelled

\* the processor breaks out of its loop and returns Ok
ProcessorCancelled ==
    /\ select_cancelled(pc, shutdown)
    /\ pc' = "exited"
    /\ batch' = <<>>
    /\ tx' = EmptyTx
    /\ listener' = FALSE
    /\ notified' = FALSE
    /\ UNCHANGED <<session_vars, datafeed_queue, datafeed_payloads, datafeed_messages,
                   fetcher_vars, limit, stops, last_processed_datafeed, applied, peer>>

\* the feed lists nobody: the snapshots differ in updated_at and in whether
\* they deserialize
FetcherLoopShutdown ==
    /\ ticks < MaxShutdownTicks
    /\ IterationOn(PublishedFrom(upstream, {<<>>}))

FetcherStep == FetcherLoopShutdown \/ FetcherCancelled

ProcessorStep ==
    ClaimBatch \/ ProcessMessage \/ CommitBatch \/ Notification \/ ProcessorCancelled

NextShutdown ==
    \/ Cancel
    \/ FetcherLoopShutdown
    \/ FetcherCancelled
    \/ ClaimBatch
    \/ ProcessMessage
    \/ CommitBatch
    \/ Notification
    \/ ProcessorCancelled

\* both tasks are scheduled as long as they have a step to take
SpecShutdown ==
    Init /\ [][NextShutdown]_vars /\ WF_vars(FetcherStep) /\ WF_vars(ProcessorStep)

\* ------------- the fetcher on its own, with a database that comes back
\* (every fetch that succeeds brings a new document; the enqueues of the
\* last iteration succeed, those of the iterations before may fail)
FetcherLoopRecovery ==
    /\ ticks < MaxRecoveryTicks
    /\ \E n \in 0..Len(in_memory_queue), doc \in PublishedFrom(upstream, FeedLists),
          fetch_ok \in BOOLEAN, drain \in Failures, live \in Outcomes :
            /\ (~fetch_ok => live = "ok" /\ doc = upstream)
            /\ (fetch_ok => doc # upstream)
            /\ (n = Len(in_memory_queue) => drain = "begin")
            /\ (ticks + 1 = MaxRecoveryTicks => n = Len(in_memory_queue) /\ live = "ok")
            /\ Tick(n, doc, fetch_ok, drain, live)

NextRecovery == FetcherLoopRecovery

\* fetcher_loop sleeps and iterates as long as nobody cancels its token
SpecRecovery == Init /\ [][NextRecovery]_vars /\ WF_vars(FetcherLoopRecovery)

\* ----------------------- two processors on one database (no crash, no restart)
\* The second processor runs process_pending_datafeeds with the backlog limit
\* and then listens; its steps are those of the first one on its own batch
\* and queue transaction.

PeerView == datafeed_payloads \o peer.tx.payloads

PeerClaim ==
    /\ peer.pc = "draining"
    /\ \E messages \in fetch_datafeed_batch(Unlocked(datafeed_queue, Locked), BacklogLimit) :
        peer' = IF messages = <<>>
                THEN [peer EXCEPT !.pc = "listening", !.listener = TRUE, !.tx = EmptyTx]
                ELSE [peer EXCEPT !.pc = "batch", !.batch = messages, !.tx = EmptyTx]
    /\ UNCHANGED <<session_vars, datafeed_queue, datafeed_payloads, datafeed_messages,
                   fetcher_vars, pc, limit, batch, tx, listener, notified, stops,
                   last_processed_datafeed, applied>>

PeerStop ==
    [peer EXCEPT !.pc = "stopped", !.batch = <<>>, !.tx = EmptyTx, !.listener = FALSE,
                 !.notified = FALSE]

PeerProcess ==
    /\ peer.pc = "batch"
    /\ peer.batch # <<>>
    /\ ~Blocked(Head(peer.batch), tx)
    /\ LET message == Head(peer.batch)
           up == upsert_datafeed_payload(PeerView, message)
           r == process_datafeed_payload(
                    [cs |-> controller_sessions, ks |-> callsign_sessions,
                     ps |-> position_sessions], message.payload)
       IN IF ~from_value(message.payload) \/ session_writes_failed(up.new_payload, r)
          THEN peer' = PeerStop /\ UNCHANGED session_vars
          ELSE /\ IF up.new_payload
                  THEN /\ controller_sessions' = r.cs
                       /\ callsign_sessions' = r.ks
                       /\ position_sessions' = r.ps
                  ELSE UNCHANGED session_vars
               /\ peer' = [peer EXCEPT
                    !.applied = IF up.new_payload
                                THEN Append(@, [queue_id |-> message.id,
                                                updated_at |-> message.updated_at])
                                ELSE @,
                    !.tx = [payloads |-> SubSeq(up.rows, Len(datafeed_payloads) + 1,
                                                Len(up.rows)),
                            messages |-> insert_datafeed_message(@.messages, message.id,
                                                                 up.payload_id),
                            deleted |-> delete_queued_datafeed(@.deleted, message.id),
                            latest |-> message.updated_at],
                    !.batch = Tail(@)]
    /\ UNCHANGED <<datafeed_queue, datafeed_payloads, datafeed_messages, fetcher_vars,
                   pc, limit, batch, tx, listener, notified, stops,
                   last_processed_datafeed, applied>>

PeerCommit ==
    /\ peer.pc = "batch"
    /\ peer.batch = <<>>
    /\ datafeed_payloads' = datafeed_payloads \o peer.tx.payloads
    /\ datafeed_messages' = datafeed_messages \cup peer.tx.messages
    /\ datafeed_queue' = {q \in datafeed_queue : q.id \notin peer.tx.deleted}
    /\ peer' = [peer EXCEPT !.pc = "draining", !.tx = EmptyTx]
    /\ UNCHANGED <<session_vars, fetcher_vars, pc, limit, batch, tx, listener, notified,
                   stops, last_processed_datafeed, applied>>

PeerNotification ==
    /\ peer.pc = "listening"
    /\ peer.notified
    /\ peer' = [peer EXCEPT !.pc = "draining", !.notified = FALSE]
    /\ UNCHANGED <<session_vars, datafeed_queue, datafeed_payloads, datafeed_messages,
                   fetcher_vars, pc, limit, batch, tx, listener, notified, stops,
                   last_processed_datafeed, applied>>

InitTwo == Start /\ peer = PeerStarted

NextTwo ==
    \/ FetcherLoop
    \/ ClaimBatch
    \/ ProcessMessage
    \/ CommitBatch
    \/ Notification
    \/ PeerClaim
    \/ PeerProcess
    \/ PeerCommit
    \/ PeerNotification

SpecTwo == InitTwo /\ [][NextTwo]_vars

\* ------------------------------------------------- the projector on its own

pipeline_vars == <<datafeed_queue, datafeed_payloads, datafeed_messages, fetcher_vars,
                   pc, limit, batch, tx, listener, notified, last_processed_datafeed>>

Projection(controllers) ==
    process_datafeed_payload(
        [cs |-> controller_sessions, ks |-> callsign_sessions, ps |-> position_sessions],
        [updated_at |-> Len(applied) + 1, controllers |-> controllers,
         wellformed |-> TRUE])

\* process_datafeed_payload commits the snapshot
ProjectSnapshot ==
    /\ pc # "stopped"
    /\ Len(applied) < MaxSnapshots
    /\ \E controllers \in ControllerLists :
        \E r \in {Projection(controllers)} :
            /\ r.ok
            /\ controller_sessions' = r.cs
            /\ callsign_sessions' = r.ks
            /\ position_sessions' = r.ps
    /\ applied' = Append(applied, [queue_id |-> Len(applied) + 1,
                                   updated_at |-> Len(applied) + 1])
    /\ UNCHANGED <<pipeline_vars, stops, peer>>

\* process_datafeed_payload fails, its transaction is dropped and the
\* processor ends with the error
RejectSnapshot ==
    /\ pc # "stopped"
    /\ Len(applied) < MaxSnapshots
    /\ \E controllers \in ControllerLists : ~Projection(controllers).ok
    /\ pc' = "stopped"
    /\ stops' = stops + 1
    /\ UNCHANGED <<session_vars, datafeed_queue, datafeed_payloads, datafeed_messages,
                   fetcher_vars, limit, batch, tx, listener, notified,
                   last_processed_datafeed, applied, peer>>

NextSessions == ProjectSnapshot \/ RejectSnapshot

SpecSessions == Init /\ [][NextSessions]_vars

\* ------------------- the projector on its own, given records that do not parse

\* the first pass logs "skipping controller" for a record of the snapshot and
\* continues
Skipped(controllers) ==
    \E n \in DOMAIN controllers : ~parse_controller_parts(controllers[n]).ok

\* as ProjectSnapshot; the history keeps which records were skipped
ProjectMixed ==
    /\ pc # "stopped"
    /\ Len(applied) < MaxMixedSnapshots
    /\ \E controllers \in MixedLists :
        \E r \in {Projection(controllers)} :
            /\ r.ok
            /\ controller_sessions' = r.cs
            /\ callsign_sessions' = r.ks
            /\ position_sessions' = r.ps
            /\ applied' = Append(applied, [queue_id |-> Len(applied) + 1,
                                           updated_at |-> Len(applied) + 1,
                                           skipped |-> Skipped(controllers)])
    /\ UNCHANGED <<pipeline_vars, stops, peer>>

RejectMixed ==
    /\ pc # "stopped"
    /\ Len(applied) < MaxMixedSnapshots
    /\ \E controllers \in MixedLists : ~Projection(controllers).ok
    /\ pc' = "stopped"
    /\ stops' = stops + 1
    /\ UNCHANGED <<session_vars, datafeed_queue, datafeed_payloads, datafeed_messages,
                   fetcher_vars, limit, batch, tx, listener, notified,
                   last_processed_datafeed, applied, peer>>

NextMixed == ProjectMixed \/ RejectMixed

SpecMixed == Init /\ [][NextMixed]_vars

\* ------------------------------------------------------------ properties

ActiveControllers == {i \in DOMAIN controller_sessions : controller_sessions[i].is_active}

\* the prefix and the suffix of a connected callsign
CallsignKey(callsign) == <<callsign[1], callsign[Len(callsign)]>>

\* C1: after any sequence of projected snapshots, rejected ones included, no
\* two controller sessions with is_active = true have the same CID
C1_OneActiveSessionPerCid ==
    \A i, j \in ActiveControllers :
        controller_sessions[i].cid = controller_sessions[j].cid => i = j

\* a CID with a closed and an active session, after a snapshot was rejected
C1_ReconnectedThenRejected ==
    /\ stops > 0
    /\ \E i \in ActiveControllers : \E j \in DOMAIN controller_sessions :
            /\ ~controller_sessions[j].is_active
            /\ controller_sessions[j].cid = controller_sessions[i].cid

\* C2: every active controller session references an active callsign session
\* with the prefix and suffix of its connected callsign, and an active position
\* session with its primary_position_id
C2_ReferencesMatchKeys ==
    \A i \in ActiveControllers :
        LET c == controller_sessions[i]
        IN /\ c.callsign_session_id \in DOMAIN callsign_sessions
           /\ callsign_sessions[c.callsign_session_id].is_active
           /\ <<callsign_sessions[c.callsign_session_id].prefix,
                 callsign_sessions[c.callsign_session_id].suffix>>
                = CallsignKey(c.connected_callsign)
           /\ c.position_session_id \in DOMAIN position_sessions
           /\ position_sessions[c.position_session_id].is_active
           /\ position_sessions[c.position_session_id].position_id = c.primary_position_id

\* C3: a callsign session, and a position session, is active if and only if
\* some active controller session references it
C3_SharedActiveIffReferenced ==
    /\ \A k \in DOMAIN callsign_sessions :
            callsign_sessions[k].is_active <=>
                \E i \in ActiveControllers : controller_sessions[i].callsign_session_id = k
    /\ \A p \in DOMAIN position_sessions :
            position_sessions[p].is_active <=>
                \E i \in ActiveControllers : controller_sessions[i].position_session_id = p

\* a reconnect kept the shared sessions of the closed controller session in
\* use, and another callsign session was closed
C3_ReusedAndClosed ==
    /\ \E i \in ActiveControllers : \E j \in DOMAIN controller_sessions :
            /\ ~controller_sessions[j].is_active
            /\ controller_sessions[j].callsign_session_id
                    = controller_sessions[i].callsign_session_id
            /\ controller_sessions[j].position_session_id
                    = controller_sessions[i].position_session_id
    /\ \E k \in DOMAIN callsign_sessions : ~callsign_sessions[k].is_active

\* C9: at most one active callsign session per (prefix, suffix) and at most
\* one active position session per position_id
C9_OneActiveSharedSessionPerKey ==
    /\ \A i, j \in ActiveIds(callsign_sessions) :
            (callsign_sessions[i].prefix = callsign_sessions[j].prefix
             /\ callsign_sessions[i].suffix = callsign_sessions[j].suffix) => i = j
    /\ \A i, j \in ActiveIds(position_sessions) :
            position_sessions[i].position_id = position_sessions[j].position_id => i = j

\* two controllers share the active callsign and position session, which were
\* opened after earlier sessions of the same keys had been closed
C9_SharedAfterReopen ==
    /\ \E i, j \in ActiveControllers :
            /\ i # j
            /\ controller_sessions[i].callsign_session_id
                    = controller_sessions[j].callsign_session_id
            /\ controller_sessions[i].position_session_id
                    = controller_sessions[j].position_session_id
            /\ \E k \in DOMAIN callsign_sessions :
                    /\ ~callsign_sessions[k].is_active
                    /\ <<callsign_sessions[k].prefix, callsign_sessions[k].suffix>>
                        = CallsignKey(controller_sessions[i].connected_callsign)
            /\ \E p \in DOMAIN position_sessions :
                    /\ ~position_sessions[p].is_active
                    /\ position_sessions[p].position_id
                        = controller_sessions[i].primary_position_id

\* the rows of a table without their ids, each with the number of its copies
Contents(rows, Key(_)) ==
    [r \in {Key(rows[i]) : i \in DOMAIN rows} |->
        Cardinality({i \in DOMAIN rows : Key(rows[i]) = r})]

ControllerKey(r) ==
    [cid |-> r.cid, login_time |-> r.login_time,
     connected_callsign |-> r.connected_callsign,
     primary_position_id |-> r.primary_position_id, start_time |-> r.start_time,
     end_time |-> r.end_time, last_seen |-> r.last_seen, is_active |-> r.is_active]

CallsignSessionKey(r) ==
    [prefix |-> r.prefix, suffix |-> r.suffix, start_time |-> r.start_time,
     end_time |-> r.end_time, last_seen |-> r.last_seen, is_active |-> r.is_active]

PositionSessionKey(r) ==
    [position_id |-> r.position_id, start_time |-> r.start_time,
     end_time |-> r.end_time, last_seen |-> r.last_seen, is_active |-> r.is_active]

\* the session tables after the archived snapshots were processed one after
\* the other, each once, without interruption
RECURSIVE Uninterrupted(_, _)
Uninterrupted(db, payloads) ==
    IF payloads = <<>> THEN db
    ELSE LET r == process_datafeed_payload(db, Head(payloads).payload)
         IN Uninterrupted([cs |-> r.cs, ks |-> r.ks, ps |-> r.ps], Tail(payloads))

\* every queued snapshot has been processed and committed
Drained == pc \in {"draining", "listening"} /\ datafeed_queue = {}

\* C4: when the processor crashed or its queue transaction failed during a
\* batch and the processor was started again, the session tables end up with
\* the same sessions (keys, start_time, end_time, last_seen, is_active) as
\* uninterrupted processing of the same snapshots
C4_CrashResumeEquivalent ==
    Drained =>
        LET u == Uninterrupted([cs |-> <<>>, ks |-> <<>>, ps |-> <<>>], datafeed_payloads)
        IN /\ Contents(controller_sessions, ControllerKey) = Contents(u.cs, ControllerKey)
           /\ Contents(callsign_sessions, CallsignSessionKey)
                = Contents(u.ks, CallsignSessionKey)
           /\ Contents(position_sessions, PositionSessionKey)
                = Contents(u.ps, PositionSessionKey)

\* C5: all writes of a snapshot are in one transaction: when a step failed,
\* none of the snapshot's session changes is durable and its queue row is
\* still queued (so no queued row has had its session changes committed)
C5_SingleTransaction ==
    pc # "batch" =>
        \A q \in datafeed_queue : \A i \in DOMAIN applied : applied[i].queue_id # q.id

\* the row at the head of the batch has the updated_at of an archived payload
DuplicateHead ==
    /\ pc = "batch"
    /\ batch # <<>>
    /\ \E i \in DOMAIN Visible : Visible[i].updated_at = Head(batch).updated_at

\* C6: a queued payload with the updated_at of an already processed payload
\* gets no session processing: the session tables are unchanged, the archive
\* gains no row, and the queue row is acknowledged (marker and delete)
C6_DuplicateIsSkipped ==
    [][(DuplicateHead /\ pc' = "batch" /\ batch' = Tail(batch)) =>
        /\ UNCHANGED <<session_vars, applied, datafeed_payloads>>
        /\ tx'.payloads = tx.payloads
        /\ Head(batch).id \in tx'.deleted
        /\ \E m \in tx'.messages :
                /\ m.queue_id = Head(batch).id
                /\ m.payload_id \in DOMAIN Visible
                /\ Visible[m.payload_id].updated_at = Head(batch).updated_at]_vars

\* two queue rows were acknowledged against one archive row
C6_DuplicateAcknowledged ==
    \E m1, m2 \in datafeed_messages :
        /\ m1.queue_id # m2.queue_id
        /\ m1.payload_id = m2.payload_id
        /\ \A q \in datafeed_queue : q.id \notin {m1.queue_id, m2.queue_id}

\* the snapshots whose session effects were applied, in non-decreasing updated_at
AppliedInOrder ==
    \A i, j \in DOMAIN applied : i < j => applied[i].updated_at <= applied[j].updated_at

\* the rows of the running batch are in ascending updated_at order, none is
\* older than the message handled before it, and there are at most limit of them
BatchAscending ==
    pc = "batch" =>
        /\ \A i, j \in DOMAIN batch : i < j => batch[i].updated_at <= batch[j].updated_at
        /\ (tx.latest # NULL /\ batch # <<>>) => tx.latest <= Head(batch).updated_at
        /\ Len(batch) + Cardinality(tx.deleted) <= limit

\* a claim takes min(limit, queue size) rows, none newer than a row it leaves
ClaimsSmallest ==
    (pc = "draining" /\ pc' = "batch") =>
        /\ Len(batch') = Min(limit, Cardinality(datafeed_queue))
        /\ Range(batch') \subseteq datafeed_queue
        /\ \A r \in datafeed_queue \ Range(batch') :
                \A i \in DOMAIN batch' : batch'[i].updated_at <= r.updated_at

\* a snapshot whose session effects are applied is the head of the batch and
\* not older than the message handled before it in the same batch
AppliesHeadInOrder ==
    applied' # applied =>
        /\ DOMAIN batch # {}
        /\ applied' = Append(applied, [queue_id |-> Head(batch).id,
                                       updated_at |-> Head(batch).updated_at])
        /\ tx.latest # NULL => tx.latest <= Head(batch).updated_at

\* C7 as stated: over the whole run of fetcher and processor, fallback buffer
\* included, the updated_at of the applied snapshots never decreases, and a
\* batch holds rows in ascending updated_at order, at most limit of them
C7_ProcessedNonDecreasing == AppliedInOrder /\ BatchAscending

\* C7 as amended: within one claimed batch the rows are the (at most limit)
\* queued rows of smallest updated_at, and they are processed in ascending
\* updated_at order
C7_BatchAscending ==
    []BatchAscending /\ [][ClaimsSmallest /\ AppliesHeadInOrder]_vars

\* a batch cut by the limit, its first row handled and a newer row next
C7_LimitedBatchUnderWay ==
    /\ pc = "batch"
    /\ batch # <<>>
    /\ tx.latest # NULL
    /\ tx.latest < Head(batch).updated_at
    /\ Len(batch) + Cardinality(tx.deleted) = limit
    /\ \E q \in datafeed_queue : q \notin Range(batch) /\ q.id \notin tx.deleted

\* start_time, end_time, last_seen and duration of every row of the three tables
SessionTimes ==
    {[start_time |-> r.start_time, end_time |-> r.end_time, last_seen |-> r.last_seen,
      duration |-> r.duration] :
        r \in Range(controller_sessions) \cup Range(callsign_sessions)
                \cup Range(position_sessions)}

\* C8 as stated: every session row has start_time <= last_seen, and once
\* end_time is set, last_seen = end_time and duration = end_time - start_time
\* >= 0, whatever the order in which the snapshots reach the projector
C8_TimesConsistent ==
    \A r \in SessionTimes :
        /\ r.start_time <= r.last_seen
        /\ r.end_time # NULL =>
                /\ r.last_seen = r.end_time
                /\ r.duration = r.end_time - r.start_time
                /\ r.duration >= 0

\* C8 as amended: once end_time is set, last_seen = end_time and duration =
\* end_time - start_time in every case; start_time <= last_seen and duration
\* >= 0 when the snapshots were applied in non-decreasing updated_at order
C8_TimesConsistentInOrder ==
    \A r \in SessionTimes :
        /\ r.end_time # NULL =>
                /\ r.last_seen = r.end_time
                /\ r.duration = r.end_time - r.start_time
        /\ AppliedInOrder =>
                /\ r.start_time <= r.last_seen
                /\ r.end_time # NULL => r.duration >= 0

\* a controller session seen in one snapshot and closed by a later one, with
\* the snapshots applied in order and the fallback buffer in use
C8_ClosedLater ==
    /\ AppliedInOrder
    /\ in_memory_queue # <<>>
    /\ \E i \in DOMAIN controller_sessions :
            /\ ~controller_sessions[i].is_active
            /\ controller_sessions[i].start_time < controller_sessions[i].end_time

\* C10: the archive has at most one row per updated_at, every processed
\* marker points at an archive row, and no step deletes or overwrites a row
C10_ArchiveUniqueAppendOnly ==
    /\ [](/\ \A i, j \in DOMAIN datafeed_payloads :
                datafeed_payloads[i].updated_at = datafeed_payloads[j].updated_at => i = j
          /\ \A m \in datafeed_messages : m.payload_id \in DOMAIN datafeed_payloads)
    /\ [][\A i \in DOMAIN datafeed_payloads :
            /\ i \in DOMAIN datafeed_payloads'
            /\ datafeed_payloads'[i] = datafeed_payloads[i]]_vars

\* two payloads are archived, one of them after the processor had stopped
\* and was started again
C10_ArchivedAcrossRestart ==
    /\ Len(datafeed_payloads) = 2
    /\ stops > 0
    /\ Cardinality(datafeed_messages) = 2

\* the markers of a queue id
Markers(id) == {m \in datafeed_messages : m.queue_id = id}

\* every id ever enqueued is still queued or has exactly one marker, not both
QueuedOrMarked ==
    \A id \in 1..enqueued :
        /\ Cardinality(Markers(id)) <= 1
        /\ (\E q \in datafeed_queue : q.id = id) <=> (Markers(id) = {})

\* a step that removes queue rows commits, for each of them, one new marker
\* that points at the archive row of the row's updated_at
RemovedWithMarker ==
    \A q \in datafeed_queue \ datafeed_queue' :
        /\ Cardinality({m \in datafeed_messages' \ datafeed_messages :
                            m.queue_id = q.id}) = 1
        /\ \A m \in datafeed_messages' \ datafeed_messages :
                m.queue_id = q.id =>
                    /\ m.payload_id \in DOMAIN datafeed_payloads'
                    /\ datafeed_payloads'[m.payload_id].updated_at = q.updated_at

\* C11: a queue row is removed only by a commit that also inserts exactly one
\* marker for its id, pointing at the archive row of the same updated_at; in
\* every committed state each enqueued id is queued or has one marker, never
\* both and never neither
C11_AcknowledgedExactlyOnce ==
    []QueuedOrMarked /\ [][RemovedWithMarker]_vars

\* after a stop and a restart one row is acknowledged and another still queued
C11_MarkedAndQueuedAfterRestart ==
    /\ stops > 0
    /\ pc = "draining"
    /\ datafeed_messages # {}
    /\ datafeed_queue # {}

\* an iteration of the fetcher enqueues a prefix of the buffer, in order, and
\* leaves the rest of the buffer, in order, at the front; nothing else of the
\* buffer reaches the queue
DrainsHeadToTail ==
    ticks' # ticks =>
        \E n \in 0..Len(in_memory_queue) :
            /\ \A i \in 1..n :
                    QueueRow(enqueued + i, in_memory_queue[i]) \in datafeed_queue'
            /\ \A q \in datafeed_queue' \ datafeed_queue :
                    q.id > enqueued + n => (q.id = enqueued + n + 1 /\ q.payload = upstream')
            /\ Len(in_memory_queue') >= Len(in_memory_queue) - n
            /\ SubSeq(in_memory_queue', 1, Len(in_memory_queue) - n)
                    = SubSeq(in_memory_queue, n + 1, Len(in_memory_queue))
            /\ enqueued' - enqueued = Cardinality(datafeed_queue' \ datafeed_queue)
            /\ enqueued' - enqueued \in {n, n + 1}

\* C13: the fallback buffer is FIFO: a drain enqueues buffered payloads head
\* to tail; after a failed enqueue the item is back at the front and the
\* buffer is the not yet enqueued suffix in its order; no buffered payload is
\* lost or enqueued twice
C13_BufferFifo == [][DrainsHeadToTail]_vars

\* rows reached the queue from the buffer only, and two payloads still wait
C13_DrainedPartly ==
    /\ last_successful_update = NULL
    /\ enqueued >= 1
    /\ Len(in_memory_queue) >= 2
    /\ in_memory_queue[1] # in_memory_queue[2]

\* the buffer is a suffix of the buffer before the step
IsSuffix(s, t) == Len(s) <= Len(t) /\ s = SubSeq(t, Len(t) - Len(s) + 1, Len(t))
Front(s) == SubSeq(s, 1, Len(s) - 1)
Last(s) == s[Len(s)]

\* the three outcomes of an iteration, told apart by last_successful_update
\* and last_error: enqueued live, enqueue failed, fetch failed
LiveOutcome ==
    ticks' # ticks =>
        LET rows == Cardinality(datafeed_queue' \ datafeed_queue)
        IN IF last_successful_update' = ticks'
           THEN /\ QueueRow(enqueued', upstream') \in datafeed_queue' \ datafeed_queue
                /\ IsSuffix(in_memory_queue', in_memory_queue)
                /\ rows = Len(in_memory_queue) - Len(in_memory_queue') + 1
           ELSE IF last_error' = "Db"
           THEN /\ in_memory_queue' # <<>>
                /\ Last(in_memory_queue') = upstream'
                /\ IsSuffix(Front(in_memory_queue'), in_memory_queue)
                /\ rows = Len(in_memory_queue) - Len(in_memory_queue') + 1
           ELSE /\ last_error' = "Fetch"
                /\ IsSuffix(in_memory_queue', in_memory_queue)
                /\ rows = Len(in_memory_queue) - Len(in_memory_queue')

\* C14: a fetched payload is appended to the tail of the fallback buffer if
\* and only if its live enqueue failed; a payload whose enqueue succeeded is
\* not added to the buffer, and a failed fetch adds nothing to the buffer or
\* to the queue
C14_BufferedIffEnqueueFailed == [][LiveOutcome]_vars

\* the newest payload is at the tail of the buffer after its enqueue failed,
\* and an earlier payload had been enqueued live
C14_BufferedAfterLive ==
    /\ last_error = "Db"
    /\ last_successful_update # NULL
    /\ last_successful_update < ticks
    /\ in_memory_queue # <<>>
    /\ Last(in_memory_queue) = upstream

\* the processor starts to wait for a notification only from a claim that
\* found the queue empty, every row enqueued so far being acknowledged
ReturnsWhenDrained ==
    (pc' = "listening" /\ pc # "listening") =>
        /\ pc = "draining"
        /\ datafeed_queue = {}
        /\ datafeed_queue' = {}
        /\ \A id \in 1..enqueued : \E m \in datafeed_messages' : m.queue_id = id

\* C15: process_pending_datafeeds returns successfully only after a claim
\* returned an empty batch: whatever the notification stood for, every row
\* that was in the queue is processed before the projector waits again
C15_DrainsUntilEmpty == [][ReturnsWhenDrained]_vars

\* back at the listener after a drain that a notification started
C15_ListeningAfterNotifiedDrain ==
    /\ pc = "listening"
    /\ limit = NotifyLimit
    /\ Cardinality(datafeed_messages) >= 2

\* ---------------------------------------------- one snapshot, before and after

\* updated_at of the snapshot the projector is given next
Now == Len(applied) + 1

Closed(row, at) == ~row.is_active /\ row.end_time = at /\ row.last_seen = at

Cid(controllers) == {controllers[n].cid : n \in DOMAIN controllers}

\* session i is the only active controller session on its connected callsign
\* and position, its CID is gone from the snapshot, and record n is active on
\* that callsign and position with a CID that was not tracked
IsHandoff(controllers, i, n) ==
    LET old == controller_sessions[i]
        new == controllers[n]
    IN /\ old.cid \notin Cid(controllers)
       /\ new.is_active
       /\ \A j \in ActiveControllers : controller_sessions[j].cid # new.cid
       /\ CallsignKey(new.callsign) = CallsignKey(old.connected_callsign)
       /\ new.primary_position_id = old.primary_position_id
       /\ \A j \in ActiveControllers \ {i} :
            \/ CallsignKey(controller_sessions[j].connected_callsign)
                    # CallsignKey(old.connected_callsign)
            \/ controller_sessions[j].primary_position_id # old.primary_position_id

\* C16: handoff: the only controller on a callsign and position disappears and
\* in the same snapshot another CID appears active on that callsign and
\* position: the callsign session and the position session of the controller
\* stay active with their id and start_time, last_seen = updated_at; the old
\* controller session is closed and a new one is opened at updated_at
C16_HandoffKeepsSharedSessions ==
    \A controllers \in ControllerLists :
        \A i \in ActiveControllers : \A n \in DOMAIN controllers :
            IsHandoff(controllers, i, n) /\ Projection(controllers).ok =>
                LET r == Projection(controllers)
                    old == controller_sessions[i]
                    k == old.callsign_session_id
                    p == old.position_session_id
                IN /\ r.ks[k] = [callsign_sessions[k] EXCEPT !.last_seen = Now]
                   /\ r.ps[p] = [position_sessions[p] EXCEPT !.last_seen = Now]
                   /\ Closed(r.cs[i], Now)
                   /\ \E j \in DOMAIN r.cs \ DOMAIN controller_sessions :
                        /\ r.cs[j].cid = controllers[n].cid
                        /\ r.cs[j].is_active
                        /\ r.cs[j].start_time = Now

\* shared session id of table `before` after the snapshot: closed at `at` when
\* it was loaded as active and nothing confirmed it, else as it was but for
\* last_seen; a row the snapshot inserted is active
ClosedIffUnconfirmed(before, after, confirmed, at) ==
    \A id \in DOMAIN after :
        IF id \in ActiveIds(before) /\ id \notin confirmed
        THEN after[id] = [before[id] EXCEPT !.is_active = FALSE, !.end_time = at,
                                            !.duration = at - before[id].start_time,
                                            !.last_seen = at]
        ELSE IF id \in ActiveIds(before)
        THEN after[id] = [before[id] EXCEPT !.last_seen = at]
        ELSE IF id \in DOMAIN before
        THEN after[id] = before[id]
        ELSE after[id].is_active /\ after[id].end_time = NULL

\* the shared sessions the controller sessions updated or created by the
\* snapshot refer to
ConfirmedCallsigns(r) == {r.cs[i].callsign_session_id : i \in ActiveIds(r.cs)}
ConfirmedPositions(r) == {r.cs[i].position_session_id : i \in ActiveIds(r.cs)}

\* one committed snapshot, seen from the tables before and after it
SnapshotClosesUnconfirmed ==
    applied' # applied =>
        LET r == [cs |-> controller_sessions', ks |-> callsign_sessions',
                  ps |-> position_sessions']
            at == Last(applied').updated_at
        IN /\ ClosedIffUnconfirmed(callsign_sessions, r.ks, ConfirmedCallsigns(r), at)
           /\ ClosedIffUnconfirmed(position_sessions, r.ps, ConfirmedPositions(r), at)

\* the snapshot without controllers closes all that is active
EmptySnapshotClosesAll ==
    LET r == Projection(<<>>)
    IN /\ r.ok
       /\ \A i \in ActiveControllers : Closed(r.cs[i], Now)
       /\ \A k \in ActiveIds(callsign_sessions) : Closed(r.ks[k], Now)
       /\ \A p \in ActiveIds(position_sessions) : Closed(r.ps[p], Now)
       /\ ActiveIds(r.cs) \cup ActiveIds(r.ks) \cup ActiveIds(r.ps) = {}

\* C17: phase C closes exactly the callsign and position sessions that were
\* loaded as active and were not confirmed by an UpdateExisting or CreateNew
\* of the snapshot, with end_time = last_seen = updated_at; an empty snapshot
\* closes every active controller, callsign and position session at updated_at
C17_ClosesExactlyUnconfirmed == [][SnapshotClosesUnconfirmed]_vars /\ []EmptySnapshotClosesAll

\* one of two shared sessions was closed by a snapshot that confirmed the
\* other, and a later snapshot closed all that was active
C17_ClosedOneThenAll ==
    /\ ActiveControllers = {}
    /\ ActiveIds(callsign_sessions) = {}
    /\ ActiveIds(position_sessions) = {}
    /\ \E k, l \in DOMAIN callsign_sessions :
        /\ callsign_sessions[k].end_time < callsign_sessions[l].end_time
        /\ callsign_sessions[k].start_time < callsign_sessions[k].end_time
        /\ callsign_sessions[l].start_time <= callsign_sessions[k].start_time
    /\ \E i \in DOMAIN controller_sessions :
        controller_sessions[i].end_time = Len(applied)

\* session i is tracked and record n, the only record of its CID, is active
\* with another login_time on the same callsign and position
IsReconnect(controllers, i, n) ==
    LET old == controller_sessions[i]
        new == controllers[n]
    IN /\ new.cid = old.cid
       /\ \A m \in DOMAIN controllers : controllers[m].cid = old.cid => m = n
       /\ new.is_active
       /\ ~login_times_match(old.login_time, new.login_time)
       /\ new.callsign = old.connected_callsign
       /\ new.primary_position_id = old.primary_position_id

\* C18: reconnect: a tracked CID is active with another login_time on the same
\* callsign and position: its controller session is closed at updated_at, a
\* new one is opened at updated_at, and the callsign session and position
\* session it used stay active (same ids, neither closed nor created again)
C18_ReconnectKeepsSharedSessions ==
    \A controllers \in ControllerLists :
        \A i \in ActiveControllers : \A n \in DOMAIN controllers :
            IsReconnect(controllers, i, n) /\ Projection(controllers).ok =>
                LET r == Projection(controllers)
                    old == controller_sessions[i]
                    k == old.callsign_session_id
                    p == old.position_session_id
                IN /\ Closed(r.cs[i], Now)
                   /\ \E j \in DOMAIN r.cs \ DOMAIN controller_sessions :
                        /\ r.cs[j].cid = old.cid
                        /\ r.cs[j].is_active
                        /\ r.cs[j].start_time = Now
                        /\ r.cs[j].callsign_session_id = k
                        /\ r.cs[j].position_session_id = p
                   /\ r.ks[k].is_active
                   /\ r.ps[p].is_active
                   /\ r.ks[k].start_time = callsign_sessions[k].start_time
                   /\ r.ps[p].start_time = position_sessions[p].start_time

\* record n, the only record of its CID, repeats tracked session i unchanged
IsContinuation(controllers, i, n) ==
    LET old == controller_sessions[i]
        new == controllers[n]
    IN /\ new.cid = old.cid
       /\ \A m \in DOMAIN controllers : controllers[m].cid = old.cid => m = n
       /\ new.is_active
       /\ new.login_time = old.login_time
       /\ new.callsign = old.connected_callsign
       /\ new.primary_position_id = old.primary_position_id

SeenAt(rows, ids, at) ==
    [id \in DOMAIN rows |-> IF id \in ids THEN [rows[id] EXCEPT !.last_seen = at] ELSE rows[id]]

\* the record of the snapshot that repeats session i
Repeating(controllers, i) ==
    controllers[CHOOSE n \in DOMAIN controllers : IsContinuation(controllers, i, n)]

\* the effect of a snapshot the projector may be given on the controller
\* sessions it repeats, Seen(old,
\* new) being the row expected for session row old and record new, and on
\* their callsign and position sessions; when the snapshot repeats every
\* tracked controller and has no other record, no row of any session table is
\* inserted or closed
ContinuationEffect(Seen(_, _)) ==
    \A controllers \in DescribedLists :
        LET r == Projection(controllers)
            repeated == {i \in ActiveControllers :
                            \E n \in DOMAIN controllers : IsContinuation(controllers, i, n)}
        IN Len(applied) < MaxSnapshots /\ repeated # {} /\ r.ok =>
            /\ \A i \in repeated :
                LET old == controller_sessions[i]
                    k == old.callsign_session_id
                    p == old.position_session_id
                IN /\ r.cs[i] = Seen(old, Repeating(controllers, i))
                   /\ r.ks[k] = [callsign_sessions[k] EXCEPT !.last_seen = Now]
                   /\ r.ps[p] = [position_sessions[p] EXCEPT !.last_seen = Now]
            /\ (repeated = ActiveControllers /\ Len(controllers) = Cardinality(repeated)) =>
                /\ DOMAIN r.cs = DOMAIN controller_sessions
                /\ \A i \in DOMAIN r.cs \ repeated : r.cs[i] = controller_sessions[i]
                /\ r.ks = SeenAt(callsign_sessions, ActiveIds(callsign_sessions), Now)
                /\ r.ps = SeenAt(position_sessions, ActiveIds(position_sessions), Now)

LastSeenOnly(old, new) == [old EXCEPT !.last_seen = Now]

LastSeenAndDescriptive(old, new) == [old EXCEPT !.last_seen = Now, !.name = new.name]

\* C19: continuation: a snapshot repeats a tracked controller unchanged (same
\* CID, login_time, position, callsign, active): no session row of any type is
\* inserted or closed, and the only change to the controller session and to
\* its callsign and position sessions is last_seen = updated_at
C19_ContinuationTouchesLastSeenOnly == ContinuationEffect(LastSeenOnly)

\* C19, amended: the controller session also takes the descriptive fields of
\* the record (name, ratings, observer flag); nothing else changes
C19_ContinuationRefreshesDescriptive == ContinuationEffect(LastSeenAndDescriptive)

\* two controllers on one callsign and position, seen again by the second snapshot
C19_BothSeenAgain ==
    /\ Len(applied) = 2
    /\ Len(controller_sessions) = 2
    /\ Len(callsign_sessions) = 1
    /\ Len(position_sessions) = 1
    /\ \A i \in DOMAIN controller_sessions :
        /\ controller_sessions[i].is_active
        /\ controller_sessions[i].start_time = 1
        /\ controller_sessions[i].last_seen = 2
    /\ callsign_sessions[1].is_active
    /\ callsign_sessions[1].start_time = 1
    /\ callsign_sessions[1].last_seen = 2
    /\ position_sessions[1].is_active
    /\ position_sessions[1].start_time = 1
    /\ position_sessions[1].last_seen = 2

\* every time the snapshot wrote to a row of the table is `at`; a row it
\* inserted has start_time = last_seen = at and no end_time
WrittenAt(before, after, at) ==
    \A id \in DOMAIN after :
        IF id \in DOMAIN before
        THEN \A f \in {"start_time", "last_seen", "end_time"} :
                after[id][f] # before[id][f] => after[id][f] = at
        ELSE /\ after[id].start_time = at
             /\ after[id].last_seen = at
             /\ after[id].end_time = NULL

SnapshotWritesUpdatedAt ==
    applied' # applied =>
        LET at == Last(applied').updated_at
        IN /\ WrittenAt(controller_sessions, controller_sessions', at)
           /\ WrittenAt(callsign_sessions, callsign_sessions', at)
           /\ WrittenAt(position_sessions, position_sessions', at)

\* C20: every start_time, last_seen and end_time written while a snapshot is
\* processed equals the snapshot's updated_at; a newly opened controller,
\* callsign or position session has start_time = last_seen = updated_at and
\* end_time unset
C20_TimesAreUpdatedAt == [][SnapshotWritesUpdatedAt]_vars

\* the second snapshot opened a session of each kind and closed one of each kind
C20_OpenedAndClosedAtSecond ==
    /\ Len(applied) = 2
    /\ \E i \in DOMAIN controller_sessions : \E j \in ActiveControllers :
        /\ controller_sessions[i].end_time = 2
        /\ controller_sessions[j].start_time = 2
    /\ \E i \in DOMAIN callsign_sessions : \E j \in ActiveIds(callsign_sessions) :
        /\ callsign_sessions[i].end_time = 2
        /\ callsign_sessions[j].start_time = 2
    /\ \E i \in DOMAIN position_sessions : \E j \in ActiveIds(position_sessions) :
        /\ position_sessions[i].end_time = 2
        /\ position_sessions[j].start_time = 2

\* C12: with two projector instances on one queue no queue row is claimed by
\* both at once, the session effects of a snapshot are applied by at most one
\* instance, and there is one active controller session per CID and one
\* active shared session per key in every committed state
C12_TwoProjectorsSafe ==
    /\ Locked \cap PeerLocked = {}
    /\ \A i \in DOMAIN applied : \A j \in DOMAIN peer.applied :
            applied[i].updated_at # peer.applied[j].updated_at
    /\ C1_OneActiveSessionPerCid
    /\ C9_OneActiveSharedSessionPerKey

\* a closed row of the table keeps is_active, end_time, last_seen and duration
ClosedRowsKept(before, after) ==
    \A id \in DOMAIN before :
        ~before[id].is_active =>
            /\ id \in DOMAIN after
            /\ ~after[id].is_active
            /\ after[id].end_time = before[id].end_time
            /\ after[id].last_seen = before[id].last_seen
            /\ after[id].duration = before[id].duration

\* a key of which the table had closed rows only is in use again through a
\* row the snapshot inserted at `at`
ReopenedAsNewRow(before, after, Key(_), at) ==
    \A id \in ActiveIds(after) :
        (/\ \E old \in DOMAIN before : Key(before[old]) = Key(after[id])
         /\ \A old \in ActiveIds(before) : Key(before[old]) # Key(after[id]))
            => /\ id \notin DOMAIN before
               /\ after[id].start_time = at
               /\ after[id].end_time = NULL

CidOf(r) == r.cid
PairOf(r) == <<r.prefix, r.suffix>>
PositionOf(r) == r.position_id

ClosedIsTerminal ==
    /\ ClosedRowsKept(controller_sessions, controller_sessions')
    /\ ClosedRowsKept(callsign_sessions, callsign_sessions')
    /\ ClosedRowsKept(position_sessions, position_sessions')
    /\ applied' # applied =>
        LET at == Last(applied').updated_at
        IN /\ ReopenedAsNewRow(controller_sessions, controller_sessions', CidOf, at)
           /\ ReopenedAsNewRow(callsign_sessions, callsign_sessions', PairOf, at)
           /\ ReopenedAsNewRow(position_sessions, position_sessions', PositionOf, at)

\* C21: closed is terminal for the three session types: no later snapshot
\* changes is_active, end_time, last_seen or duration of a row that has
\* is_active = false, and a later use of the same CID, (prefix, suffix) or
\* position_id opens a new row instead of re-activating the closed one
C21_ClosedIsTerminal == [][ClosedIsTerminal]_vars

\* a CID, its callsign pair and its position are in use again after their
\* sessions had been closed by an earlier snapshot
C21_ReopenedAfterClose ==
    /\ \E i \in ActiveControllers : \E j \in DOMAIN controller_sessions :
        /\ ~controller_sessions[j].is_active
        /\ controller_sessions[j].cid = controller_sessions[i].cid
        /\ controller_sessions[j].end_time < controller_sessions[i].start_time
    /\ \E i \in ActiveIds(callsign_sessions) : \E j \in DOMAIN callsign_sessions :
        /\ ~callsign_sessions[j].is_active
        /\ PairOf(callsign_sessions[j]) = PairOf(callsign_sessions[i])
        /\ callsign_sessions[j].end_time < callsign_sessions[i].start_time
    /\ \E i \in ActiveIds(position_sessions) : \E j \in DOMAIN position_sessions :
        /\ ~position_sessions[j].is_active
        /\ position_sessions[j].position_id = position_sessions[i].position_id
        /\ position_sessions[j].end_time < position_sessions[i].start_time

\* an iteration that reached the fetch: last_attempted_update is its time;
\* last_successful_update changes only to that time and only with the row of
\* the fetched payload committed, and is that time when the iteration ended
\* with one row more than it took from the buffer and did not buffer the payload
IterationTimes ==
    ticks' # ticks =>
        LET rows == Cardinality(datafeed_queue' \ datafeed_queue)
            taken == Len(in_memory_queue) - Len(in_memory_queue')
        IN /\ last_attempted_update' = ticks'
           /\ last_successful_update' # last_successful_update =>
                /\ last_successful_update' = ticks'
                /\ QueueRow(enqueued', upstream') \in datafeed_queue' \ datafeed_queue
                /\ rows = taken + 1
           /\ (/\ rows = taken + 1
               /\ (in_memory_queue' = <<>> \/ Last(in_memory_queue') # upstream'))
                => last_successful_update' = ticks'

SuccessNotAfterAttempt ==
    /\ last_successful_update # NULL => last_attempted_update # NULL
    /\ last_successful_update # NULL => last_successful_update <= last_attempted_update
    /\ ticks > 0 => last_attempted_update = ticks

\* C22: every iteration of the fetcher that reaches the fetch sets
\* last_attempted_update to its time, whether fetch and enqueue succeed or
\* not; last_successful_update is set only by an iteration whose live enqueue
\* succeeded; so last_successful_update <= last_attempted_update when both
\* are set
C22_AttemptedAlwaysSuccessfulOnEnqueue == []SuccessNotAfterAttempt /\ [][IterationTimes]_vars

\* a live enqueue succeeded, and later iterations failed at the fetch and at
\* the enqueue
C22_SucceededThenFailed ==
    /\ last_successful_update # NULL
    /\ last_successful_update + 2 <= last_attempted_update
    /\ last_error = "Db"
    /\ Len(in_memory_queue) = 1

\* a call of enqueue_datafeed in the present state, with the next id: Ok
\* leaves one new row and delivers one notification with the id of the row,
\* an error leaves neither
EnqueueCall ==
    \A doc \in Published(upstream), outcome \in Outcomes :
        LET id == enqueued + 1
            r == enqueue_datafeed(datafeed_queue, id, doc, outcome)
        IN IF outcome = "ok"
           THEN /\ r.ok
                /\ r.queue \ datafeed_queue = {QueueRow(id, doc)}
                /\ datafeed_queue \subseteq r.queue
                /\ r.delivered = {id}
           ELSE /\ ~r.ok
                /\ r.queue = datafeed_queue
                /\ r.delivered = {}

\* an iteration of the fetcher: the new queue rows are one per enqueue that
\* returned Ok, and a listening processor has a notification from the
\* iteration exactly when the iteration committed a row
EnqueueCommitsRowWithNotification ==
    ticks' # ticks =>
        LET new == datafeed_queue' \ datafeed_queue
        IN /\ datafeed_queue \subseteq datafeed_queue'
           /\ {q.id : q \in new} = (enqueued + 1)..enqueued'
           /\ Cardinality(new) = enqueued' - enqueued
           /\ (last_error' = "Db" /\ last_successful_update' # ticks'
                    /\ Len(in_memory_queue') = Len(in_memory_queue) + 1) => new = {}
           /\ notified' = (notified \/ (listener /\ new # {}))

\* C23: enqueue is atomic: a failed enqueue leaves no new queue row and
\* delivers no notification; a successful enqueue leaves exactly one new
\* queue row and delivers a notification with its id; no notification is
\* seen for a row that is not committed
C23_EnqueueAtomic == []EnqueueCall /\ [][EnqueueCommitsRowWithNotification]_vars

\* the listening processor was notified of a row that is committed, by an
\* iteration whose live enqueue failed after the buffer had been drained
C23_NotifiedByDrainOnly ==
    /\ pc = "listening"
    /\ notified
    /\ last_error = "Db"
    /\ last_successful_update = NULL
    /\ Len(in_memory_queue) = 1
    /\ datafeed_queue # {}

\* ----------------------------------------------- inside one snapshot's transaction

\* the session tables as the projector finds them
Tables == [cs |-> controller_sessions, ks |-> callsign_sessions, ps |-> position_sessions]

Snapshot(controllers) == [updated_at |-> Now, controllers |-> controllers, wellformed |-> TRUE]

\* controller_actions of the snapshot
Actions(controllers) ==
    Reconcile(load_active_state(Tables), Snapshot(controllers)).controller_actions

\* the transaction when the loop over controller_actions starts
LoopStart(controllers) ==
    LET existing_state == load_active_state(Tables)
    IN AfterCloses(Tables, existing_state, Reconcile(existing_state, Snapshot(controllers)), Now)

OneActivePerCid(cs) ==
    \A i, j \in ActiveIds(cs) : cs[i].cid = cs[j].cid => i = j

\* the controller table has one active session per CID when the loop starts
\* and after each of its turns, and no statement fails when the snapshot is
\* one that has to commit
RECURSIVE OneActivePerCidDuring(_, _, _)
OneActivePerCidDuring(w, controller_actions, commits) ==
    /\ OneActivePerCid(w.cs)
    /\ commits => w.ok
    /\ controller_actions # <<>> /\ w.ok =>
            OneActivePerCidDuring(ApplyAction(w, Head(controller_actions), Now),
                                  Tail(controller_actions), commits)

\* the CIDs for which the loop updates or inserts more than once
WrittenTwice(controller_actions) ==
    {controller_actions[i].controller.cid :
        i \in {k \in DOMAIN controller_actions :
                /\ controller_actions[k].type # "Close"
                /\ \E l \in DOMAIN controller_actions :
                    /\ l # k
                    /\ controller_actions[l].type # "Close"
                    /\ controller_actions[l].controller.cid
                            = controller_actions[k].controller.cid}}

\* C24: in one snapshot every close of a controller session decided by the
\* reconciler is written before the first UpdateExisting or CreateNew is
\* applied, so that at no point of the transaction a CID has two active
\* controller sessions through a Close + CreateNew pair (and such a pair
\* does not fail the snapshot)
C24_ClosesBeforeOpens ==
    \A controllers \in ControllerLists :
        Len(applied) < MaxSnapshots =>
            LET existing_state == load_active_state(Tables)
                r == Reconcile(existing_state, Snapshot(controllers))
                w0 == AfterCloses(Tables, existing_state, r, Now)
            IN /\ \A k \in DOMAIN r.controller_actions :
                    r.controller_actions[k].type = "Close" =>
                        Closed(w0.cs[r.controller_actions[k].session_id], Now)
               /\ OneActivePerCidDuring(w0, r.controller_actions,
                                         WrittenTwice(r.controller_actions) = {})

\* a snapshot closed a controller session and opened the next one of the CID
C24_ClosedAndOpenedAtOnce ==
    \E i \in ActiveControllers : \E j \in DOMAIN controller_sessions :
        /\ ~controller_sessions[j].is_active
        /\ controller_sessions[j].cid = controller_sessions[i].cid
        /\ controller_sessions[j].end_time = controller_sessions[i].start_time
        /\ controller_sessions[i].start_time = 2

\* the CID an action is about
ActionCid(action) ==
    IF action.type = "UpdateExisting" THEN action.controller.cid ELSE action.cid

\* the actions about a CID, in the order of controller_actions
RECURSIVE ActionsOf(_, _)
ActionsOf(controller_actions, cid) ==
    IF controller_actions = <<>> THEN <<>>
    ELSE (IF ActionCid(Head(controller_actions)) = cid
          THEN <<Head(controller_actions)>> ELSE <<>>)
         \o ActionsOf(Tail(controller_actions), cid)

\* the active controller sessions of a CID
Tracked(cid) == {i \in ActiveControllers : controller_sessions[i].cid = cid}

\* what is loaded of controller session i
Existing(i) ==
    [controller_session_id |-> i,
     callsign_session_id |-> controller_sessions[i].callsign_session_id,
     position_session_id |-> controller_sessions[i].position_session_id,
     connected_callsign |-> controller_sessions[i].connected_callsign]

\* the actions expected for an active record, by the rule of the claim
ExpectedForActive(c) ==
    LET new == CreateNew(c, CallsignKey(c.callsign), c.primary_position_id, c.cid)
    IN IF Tracked(c.cid) = {} THEN <<new>>
       ELSE LET i == CHOOSE t \in Tracked(c.cid) : TRUE
                row == controller_sessions[i]
            IN IF Micros(row.login_time) = Micros(c.login_time)
                    /\ row.primary_position_id = c.primary_position_id
               THEN <<UpdateExisting(i, c, row.callsign_session_id, row.position_session_id)>>
               ELSE <<Close(Existing(i), c.cid, "ReconnectedOrChangedPosition"), new>>

DistinctCids(controllers) ==
    \A m, n \in DOMAIN controllers : controllers[m].cid = controllers[n].cid => m = n

\* C25: for a record with is_active = true the reconciler emits exactly:
\* UpdateExisting when the CID is tracked, the tracked login_time equals the
\* record's at microsecond precision and the tracked position_id equals the
\* record's primary_position_id; Close(ReconnectedOrChangedPosition) followed
\* by CreateNew when the CID is tracked and either differs; CreateNew alone
\* when the CID is not tracked
C25_ActiveRecordActions ==
    \A controllers \in PreciseLists :
        (Len(applied) < MaxSnapshots /\ DistinctCids(controllers)) =>
            \A n \in DOMAIN controllers :
                controllers[n].is_active =>
                    ActionsOf(Actions(controllers), controllers[n].cid)
                        = ExpectedForActive(controllers[n])

\* a tracked controller was continued, and before that another session of
\* its CID was closed upon a later login_time
C25_ReconnectedThenContinued ==
    \E i \in ActiveControllers : \E j \in DOMAIN controller_sessions :
        /\ ~controller_sessions[j].is_active
        /\ controller_sessions[j].cid = controller_sessions[i].cid
        /\ controller_sessions[j].login_time # controller_sessions[i].login_time
        /\ controller_sessions[j].primary_position_id
                = controller_sessions[i].primary_position_id
        /\ controller_sessions[i].start_time < controller_sessions[i].last_seen

\* records m < n of the snapshot have the same CID, and no other record has it
IsRepeatedCid(controllers, m, n) ==
    /\ m < n
    /\ controllers[m].cid = controllers[n].cid
    /\ \A l \in DOMAIN controllers : controllers[l].cid = controllers[n].cid => l \in {m, n}

\* the active controller sessions of the CID of record c are as c alone says:
\* one session with the login_time, callsign and position of c when c is
\* active, none when it is not
DeterminedBy(cs, c) ==
    LET active == {i \in ActiveIds(cs) : cs[i].cid = c.cid}
    IN IF c.is_active
       THEN /\ Cardinality(active) = 1
            /\ \A i \in active :
                /\ Micros(cs[i].login_time) = Micros(c.login_time)
                /\ cs[i].connected_callsign = c.callsign
                /\ cs[i].primary_position_id = c.primary_position_id
       ELSE active = {}

\* C26: two records of one snapshot with the same CID are accepted: the
\* snapshot is processed without error, and the second record determines the
\* outcome for the CID
C26_SecondRecordWins ==
    \A controllers \in ControllerLists :
        \A m, n \in DOMAIN controllers :
            IsRepeatedCid(controllers, m, n) =>
                /\ Projection(controllers).ok
                /\ DeterminedBy(Projection(controllers).cs, controllers[n])

\* the CIDs of the records of the snapshot that parse
ValidCids(controllers) ==
    {controllers[n].cid : n \in {m \in DOMAIN controllers :
                                    parse_controller_parts(controllers[m]).ok}}

\* the closes of controller_actions that have the reason
ClosesFor(controller_actions, reason) ==
    {controller_actions[k] :
        k \in {l \in DOMAIN controller_actions :
                /\ controller_actions[l].type = "Close"
                /\ controller_actions[l].reason = reason}}

\* C27: when all records of a snapshot are classified, every controller
\* session that was loaded as active and whose CID no valid record consumed
\* is closed with reason MissingFromDatafeed at end_time = updated_at, and no
\* other session is closed with that reason
C27_MissingClosedExactly ==
    \A controllers \in ControllerLists \cup MixedLists :
        Len(applied) < MaxMixedSnapshots =>
            LET missing == {i \in ActiveControllers :
                                controller_sessions[i].cid \notin ValidCids(controllers)}
                r == Projection(controllers)
            IN /\ ClosesFor(Actions(controllers), "MissingFromDatafeed")
                    = {Close(Existing(i), controller_sessions[i].cid, "MissingFromDatafeed") :
                            i \in missing}
               /\ \A i \in missing : Closed(LoopStart(controllers).cs[i], Now)
               /\ r.ok => \A i \in missing :
                    /\ Closed(r.cs[i], Now)
                    /\ r.cs[i].duration = Now - controller_sessions[i].start_time

\* one controller left the feed while another one stayed in it
C27_OneLeftOneStayed ==
    \E i \in ActiveControllers : \E j \in DOMAIN controller_sessions :
        /\ ~controller_sessions[j].is_active
        /\ controller_sessions[j].cid # controller_sessions[i].cid
        /\ controller_sessions[j].start_time = controller_sessions[i].start_time
        /\ controller_sessions[j].end_time = controller_sessions[i].last_seen
        /\ controller_sessions[i].login_time = controller_sessions[j].login_time
        /\ controller_sessions[i].primary_position_id
                = controller_sessions[j].primary_position_id

\* the snapshot without its record n
Without(controllers, n) ==
    SubSeq(controllers, 1, n - 1) \o SubSeq(controllers, n + 1, Len(controllers))

\* C28: a record with is_active = false of a tracked CID closes the tracked
\* controller session (DeactivatedPosition) at updated_at and creates no
\* session for the CID; a record with is_active = false of an untracked CID
\* changes no session at all
C28_InactiveRecordClosesOnly ==
    \A controllers \in ControllerLists :
        (Len(applied) < MaxSnapshots /\ DistinctCids(controllers)) =>
            \A n \in DOMAIN controllers :
                ~controllers[n].is_active =>
                    LET cid == controllers[n].cid
                        r == Projection(controllers)
                    IN IF Tracked(cid) # {}
                       THEN /\ ActionsOf(Actions(controllers), cid)
                                = <<Close(Existing(CHOOSE i \in Tracked(cid) : TRUE), cid,
                                          "DeactivatedPosition")>>
                            /\ r.ok
                            /\ \A i \in Tracked(cid) : Closed(r.cs[i], Now)
                            /\ \A j \in DOMAIN r.cs \ DOMAIN controller_sessions :
                                    r.cs[j].cid # cid
                       ELSE /\ ActionsOf(Actions(controllers), cid) = <<>>
                            /\ r = Projection(Without(controllers, n))

\* a controller was closed by a snapshot that still lists the position, which
\* another controller holds from then on
C28_ClosedWhileOtherOpened ==
    \E i \in ActiveControllers : \E j \in DOMAIN controller_sessions :
        /\ ~controller_sessions[j].is_active
        /\ controller_sessions[j].cid = 1001
        /\ controller_sessions[i].cid = 1002
        /\ controller_sessions[j].end_time = controller_sessions[i].start_time
        /\ controller_sessions[j].position_session_id
                = controller_sessions[i].position_session_id

\* the record is one that the claim calls bad: its CID is no integer, or its
\* callsign does not have 2 or 3 parts
IsBad(c) == c.cid = NotAnI32 \/ Len(c.callsign) \notin {2, 3}

\* the actions that carry the record
ActionsWith(controller_actions, c) ==
    {k \in DOMAIN controller_actions :
        /\ controller_actions[k].type # "Close"
        /\ controller_actions[k].controller = c}

\* C29: a record whose CID is not an integer or whose callsign does not have
\* exactly 2 or 3 underscore-delimited parts is skipped and produces no
\* action of its own; the snapshot still commits, and the other records are
\* classified and applied as if the bad record were absent; a callsign of 2
\* or 3 parts is accepted
C29_BadRecordSkipped ==
    \A controllers \in MixedLists :
        Len(applied) < MaxMixedSnapshots =>
            LET controller_actions == Actions(controllers)
                r == Projection(controllers)
            IN \A n \in DOMAIN controllers :
                IF IsBad(controllers[n])
                THEN /\ controller_actions = Actions(Without(controllers, n))
                     /\ r = Projection(Without(controllers, n))
                     /\ DistinctCids(Without(controllers, n)) => r.ok
                ELSE controllers[n].is_active =>
                        ActionsWith(controller_actions, controllers[n]) # {}

\* the last snapshot had a record that was skipped and committed: in it a
\* controller tracked under a callsign of three parts was seen again and the
\* session of another controller was closed
C29_ThreePartsTracked ==
    \E i \in ActiveControllers : \E j \in DOMAIN controller_sessions :
        /\ applied # <<>>
        /\ applied[Len(applied)].skipped
        /\ controller_sessions[i].last_seen = Now - 1
        /\ controller_sessions[j].end_time = Now - 1
        /\ Len(controller_sessions[i].connected_callsign) = 3
        /\ controller_sessions[i].start_time < controller_sessions[i].last_seen
        /\ ~controller_sessions[j].is_active
        /\ controller_sessions[j].cid # controller_sessions[i].cid
        /\ controller_sessions[j].callsign_session_id
                = controller_sessions[i].callsign_session_id

\* the queue rows whose payload fails full deserialization
BadRows == {q \in datafeed_queue : ~q.payload.wellformed}

\* a payload that fails full deserialization is not in the archive, and its
\* queue row is neither recorded as a processed message nor deleted, also
\* not by the open queue transaction
BadRowsUntouched ==
    /\ \A i \in DOMAIN Visible : Visible[i].payload.wellformed
    /\ \A q \in BadRows :
        /\ q.id \notin tx.deleted
        /\ \A m \in datafeed_messages \cup tx.messages : m.queue_id # q.id

\* a step keeps every bad row in the queue; the processor's step on a bad row
\* ends it with an error and writes nothing; a row is handled only when no
\* bad row enqueued before it sorts before it; and a run ends without an
\* error only when no bad row is left
BadRowBlocks ==
    /\ BadRows \subseteq datafeed_queue'
    /\ pc = "batch" /\ batch # <<>> /\ Head(batch) \in BadRows /\ batch' # batch =>
            /\ pc' = "stopped"
            /\ stops' = stops + 1
            /\ tx' = EmptyTx
            /\ UNCHANGED <<session_vars, datafeed_payloads, datafeed_messages,
                           last_processed_datafeed, applied>>
    /\ pc = "batch" /\ batch # <<>> /\ batch' = Tail(batch) =>
            \A q \in BadRows :
                q.id < Head(batch).id => Head(batch).updated_at <= q.updated_at
    /\ pc # "listening" /\ pc' = "listening" => BadRows = {}

\* C30: a queued payload that fails full deserialization is never archived,
\* never marked processed and never deleted from the queue; the projector
\* stops with an error on it, and every later run fails on the same row again
\* without processing any payload that sorts after it
C30_BadPayloadBlocksQueue == []BadRowsUntouched /\ [][BadRowBlocks]_vars

\* the projector was started again and ended with an error once more; the
\* bad row is the first of the queue and a payload that sorts after it is
\* still waiting, nothing of the queue was archived
C30_FailedAgainOnBadRow ==
    /\ pc = "stopped"
    /\ stops = 2
    /\ datafeed_payloads = <<>>
    /\ \E q \in BadRows : \E later \in datafeed_queue :
        /\ later.payload.wellformed
        /\ q.updated_at < later.updated_at
        /\ \A other \in datafeed_queue : q.updated_at <= other.updated_at

\* the processor is at tx.commit() of its queue transaction, with rows to
\* acknowledge, and the step it takes leaves these rows queued: the commit failed
CommitFailed ==
    /\ pc = "batch"
    /\ batch = <<>>
    /\ tx.deleted # {}
    /\ pc' # pc
    /\ datafeed_queue' = datafeed_queue

\* C31: when committing the projector's transaction fails, the projector
\* loop keeps running (it is not ended, it goes on to wait for a
\* notification) and the affected queue rows stay queued to be retried on the
\* next notification
C31_CommitFailureRetried ==
    [][CommitFailed => pc' \in {"draining", "listening"} /\ stops' = stops]_vars

\* the processor handles a row whose payload is new and whose session writes
\* meet a database error
SessionWritesFail ==
    /\ pc = "batch"
    /\ batch # <<>>
    /\ batch' # batch
    /\ Head(batch).payload.wellformed
    /\ upsert_datafeed_payload(Visible, Head(batch)).new_payload
    /\ ~process_datafeed_payload(Tables, Head(batch).payload).ok

\* C32: a database error during a snapshot's session writes is not
\* swallowed: the session tables stay as they were, the queue row is not
\* acknowledged (no archive row, no processed marker, no delete, not even
\* pending), and the processor ends with an error
C32_SessionErrorSurfaces ==
    [][SessionWritesFail =>
            /\ pc' = "stopped"
            /\ stops' = stops + 1
            /\ tx' = EmptyTx
            /\ UNCHANGED <<session_vars, datafeed_queue, datafeed_payloads,
                           datafeed_messages, last_processed_datafeed, applied>>]_vars

\* the processor ended on a snapshot that lists a controller twice, after it
\* had opened a session for that controller; the snapshot is still queued
C32_EndedOnRepeatedCid ==
    /\ pc = "stopped"
    /\ BadRows = {}
    /\ ActiveControllers # {}
    /\ \E q \in datafeed_queue :
        /\ ~process_datafeed_payload(Tables, q.payload).ok
        /\ \A a \in Range(applied) : a.queue_id # q.id
        /\ \A other \in datafeed_queue : q.updated_at <= other.updated_at

\* the fetcher leaves its loop only on a cancelled token, and then either at
\* the end of a whole iteration or without having touched anything
FetcherExitsBetweenIterations ==
    fetcher_pc = "running" /\ fetcher_pc' = "exited" =>
        /\ "fetcher" \in shutdown
        /\ \/ ticks' = ticks + 1 /\ last_attempted_update' = ticks'
           \/ UNCHANGED <<datafeed_queue, in_memory_queue, enqueued, ticks, upstream,
                          last_attempted_update, last_successful_update, last_error>>

\* the processor returns Ok only on a cancelled token while it waits for a
\* notification: no batch is claimed and no queue transaction is open, and
\* nothing in the database changes
ProcessorExitsBetweenIterations ==
    pc # "exited" /\ pc' = "exited" =>
        /\ "processor" \in shutdown
        /\ pc = "listening"
        /\ batch = <<>>
        /\ tx = EmptyTx
        /\ UNCHANGED <<session_vars, datafeed_queue, datafeed_payloads, datafeed_messages>>

\* the processor ends with an error only on a row it cannot deserialize or
\* whose session writes fail
ProcessorErrorIsItsOwn ==
    pc # "stopped" /\ pc' = "stopped" =>
        /\ pc = "batch"
        /\ batch # <<>>
        /\ \/ ~Head(batch).payload.wellformed
           \/ ~process_datafeed_payload(Tables, Head(batch).payload).ok

\* the claim as it was stated: once the token is cancelled, the ingestor
\* loop and the projector loop each eventually exit with a non-error result
C33_BothExitWithoutError ==
    /\ ("fetcher" \in shutdown) ~> (fetcher_pc = "exited")
    /\ ("processor" \in shutdown) ~> (pc = "exited")

\* C33: once its token is cancelled, the ingestor loop eventually exits with
\* a non-error result, and the projector loop eventually exits, with a
\* non-error result unless the pass it is in ends with an error of its own
\* (a payload that fails deserialization, a failing session write); neither
\* gives up an iteration that is in progress: the token is acted on only
\* between iterations
C33_ExitBetweenIterations ==
    /\ ("fetcher" \in shutdown) ~> (fetcher_pc = "exited")
    /\ ("processor" \in shutdown) ~> (pc \in {"exited", "stopped"})
    /\ [][/\ FetcherExitsBetweenIterations
          /\ ProcessorExitsBetweenIterations
          /\ ProcessorErrorIsItsOwn]_vars

\* both loops have returned Ok after the processor had claimed a batch with
\* its token already cancelled, and that batch is acknowledged
C33_FinishedBatchThenExited ==
    /\ pc = "exited"
    /\ fetcher_pc = "exited"
    /\ datafeed_queue = {}
    /\ datafeed_messages # {}
    /\ last_processed_datafeed # NULL

\* the snapshot applied to the tables that its first application left
Again(first, controllers) ==
    process_datafeed_payload([cs |-> first.cs, ks |-> first.ks, ps |-> first.ps],
                             Snapshot(controllers))

\* the actions of the second application
ActionsAgain(first, controllers) ==
    Reconcile(load_active_state([cs |-> first.cs, ks |-> first.ks, ps |-> first.ps]),
              Snapshot(controllers)).controller_actions

\* applied once more, the snapshot commits, leaves the three tables as they
\* are and has no action but UpdateExisting
SameWhenAppliedAgain(controllers) ==
    LET first == Projection(controllers)
        controller_actions == ActionsAgain(first, controllers)
    IN first.ok =>
        /\ Again(first, controllers) = first
        /\ \A k \in DOMAIN controller_actions :
                controller_actions[k].type = "UpdateExisting"

\* C34: applying the same snapshot to the session tables twice in a row
\* leaves the tables exactly as after the first application: the second pass
\* classifies every controller created or kept by the first pass as
\* UpdateExisting and closes or creates nothing
C34_SecondApplicationChangesNothing ==
    \A controllers \in ControllerLists \cup MixedLists :
        Len(applied) < MaxMixedSnapshots => SameWhenAppliedAgain(controllers)

\* the fetcher enqueued the payload it fetched in this iteration
LiveEnqueued == ticks' # ticks /\ last_successful_update' = ticks'

\* the buffer holds payloads in the order they were fetched, none of them
\* newer than the last payload fetched
BufferInFetchOrder ==
    /\ \A i, j \in DOMAIN in_memory_queue :
            i < j => in_memory_queue[i].updated_at <= in_memory_queue[j].updated_at
    /\ \A i \in DOMAIN in_memory_queue :
            in_memory_queue[i].updated_at <= upstream.updated_at

\* the rows an iteration commits are in the order their payloads were
\* fetched, the payload of this iteration last; what stays in the buffer is
\* the rest of the buffer
EnqueuedInFetchOrder ==
    ticks' # ticks =>
        LET new == datafeed_queue' \ datafeed_queue
        IN /\ \A q1, q2 \in new : q1.id < q2.id => q1.updated_at <= q2.updated_at
           /\ LiveEnqueued =>
                /\ QueueRow(enqueued', upstream') \in new
                /\ \A q \in new : q.id <= enqueued'
                /\ IsSuffix(in_memory_queue', in_memory_queue)

\* the claim as it was stated: a newly fetched payload is never enqueued
\* while an earlier-fetched payload is still waiting in the fallback buffer
C35_NothingWaitsWhenLiveEnqueued ==
    [][LiveEnqueued => in_memory_queue' = <<>>]_vars

\* C35: the payloads that an iteration commits to the durable queue are
\* committed in the order they were fetched: the drained ones head to tail,
\* then the newly fetched one; the buffer keeps its payloads in fetch order;
\* the newly fetched payload is enqueued also when the drain stopped at a
\* failure, ahead of the payloads that still wait in the buffer
C35_IterationInFetchOrder ==
    []BufferInFetchOrder /\ [][EnqueuedInFetchOrder]_vars

\* the payload fetched last is in the queue while an older one still waits
\* in the buffer
C35_NewerEnqueuedOlderWaits ==
    /\ last_successful_update = ticks
    /\ in_memory_queue # <<>>
    /\ QueueRow(enqueued, upstream) \in datafeed_queue
    /\ in_memory_queue[1].updated_at < upstream.updated_at

\* record n of the snapshot is active, of the CID of tracked session i, with
\* the tracked login_time and position but another callsign
CallsignChanged(controllers, n, i) ==
    LET c == controllers[n]
        row == controller_sessions[i]
    IN /\ c.is_active
       /\ row.cid = c.cid
       /\ Micros(row.login_time) = Micros(c.login_time)
       /\ row.primary_position_id = c.primary_position_id
       /\ row.connected_callsign # c.callsign

\* the controller sessions of a CID
SessionsOf(cs, cid) == {j \in DOMAIN cs : cs[j].cid = cid}

Permuted(controllers, p) == [n \in DOMAIN controllers |-> controllers[p[n]]]

\* the valid records of the snapshot have pairwise distinct CIDs
DistinctValidCids(controllers) ==
    \A m, n \in DOMAIN controllers :
        (/\ ~IsBad(controllers[m]) /\ ~IsBad(controllers[n])
         /\ controllers[m].cid = controllers[n].cid) => m = n

\* the sessions of r without their ids: every controller session with the
\* callsign session and the position session it points at
SessionState(r) ==
    [ok |-> r.ok,
     cs |-> Contents([i \in DOMAIN r.cs |->
                        [row |-> ControllerKey(r.cs[i]),
                         callsign_session |->
                            CallsignSessionKey(r.ks[r.cs[i].callsign_session_id]),
                         position_session |->
                            PositionSessionKey(r.ps[r.cs[i].position_session_id])]],
                     LAMBDA x : x),
     ks |-> Contents(r.ks, CallsignSessionKey),
     ps |-> Contents(r.ps, PositionSessionKey)]

\* every order of the records gives the sessions of the order given
SameInEveryOrder(controllers) ==
    LET given == SessionState(Projection(controllers))
    IN \A p \in Permutations(DOMAIN controllers) :
            SessionState(Projection(Permuted(controllers, p))) = given

\* C37: for a snapshot whose valid records have pairwise distinct CIDs, the
\* resulting sessions (which are active, closed or created, with which keys
\* and timestamps, up to the choice of fresh ids) do not depend on the order
\* of the controller records inside the snapshot
C37_OrderOfRecordsIrrelevant ==
    \A controllers \in ControllerLists \cup MixedLists :
        (Len(applied) < MaxMixedSnapshots /\ DistinctValidCids(controllers)) =>
            SameInEveryOrder(controllers)

\* two snapshots were projected of which the last had two valid records of
\* different CIDs, so that two controller sessions are active on fresh ids
C37_TwoControllersInOneSnapshot ==
    /\ Len(applied) >= 1
    /\ \E i, j \in ActiveControllers :
          /\ controller_sessions[i].cid # controller_sessions[j].cid
          /\ controller_sessions[i].start_time = Last(applied).updated_at
          /\ controller_sessions[j].start_time = Last(applied).updated_at

\* a record of the snapshot that does not parse carries the CID, or a CID
\* that is no integer, and no record of the snapshot that parses carries it
OnlyBadRecordsOf(controllers, cid) ==
    /\ \E n \in DOMAIN controllers :
          /\ IsBad(controllers[n])
          /\ controllers[n].cid \in {cid, NotAnI32}
    /\ cid \notin ValidCids(controllers)

\* C39: when the record of a tracked CID fails identifier parsing (bad CID
\* or bad callsign format), the tracked entry is not consumed: the active
\* controller session of the CID is closed in that snapshot with reason
\* MissingFromDatafeed at updated_at, although the controller is still in
\* the feed, and the CID gets no other action
C39_UnparsedTrackedIsClosedAsMissing ==
    \A controllers \in MixedLists :
        Len(applied) < MaxMixedSnapshots =>
            \A i \in ActiveControllers :
                LET cid == controller_sessions[i].cid
                IN OnlyBadRecordsOf(controllers, cid) =>
                    LET r == Projection(controllers)
                    IN /\ ActionsOf(Actions(controllers), cid)
                            = <<Close(Existing(i), cid, "MissingFromDatafeed")>>
                       /\ Closed(LoopStart(controllers).cs[i], Now)
                       /\ r.ok =>
                            /\ Closed(r.cs[i], Now)
                            /\ SessionsOf(r.cs, cid) = SessionsOf(controller_sessions, cid)

\* the last snapshot had a record that was skipped, and a controller session
\* that an earlier snapshot opened ended with it without a successor
C39_ClosedBySkippedRecord ==
    /\ applied # <<>>
    /\ Last(applied).skipped
    /\ \E i \in DOMAIN controller_sessions :
          /\ Closed(controller_sessions[i], Last(applied).updated_at)
          /\ controller_sessions[i].start_time < Last(applied).updated_at
          /\ \A j \in DOMAIN controller_sessions :
                controller_sessions[j].cid = controller_sessions[i].cid
                    => ~controller_sessions[j].is_active

\* the documents the feed may have published
Documents ==
    [updated_at : 0..MaxRecoveryTicks, controllers : FeedLists, wellformed : BOOLEAN]

\* the committed queue rows of a document
RowsOf(doc) == {row \in datafeed_queue : row.payload = doc}

Buffered(doc) == \E i \in DOMAIN in_memory_queue : in_memory_queue[i] = doc

\* C38: if the fetcher keeps running and from some tick on every enqueue
\* succeeds, the fallback buffer eventually becomes empty and stays empty,
\* and every payload that was ever placed in it is from then on in the
\* durable queue exactly once
C38_BufferDrainsOnceEach ==
    /\ <>[](in_memory_queue = <<>>)
    /\ \A doc \in Documents :
          Buffered(doc) ~> [](~Buffered(doc) /\ Cardinality(RowsOf(doc)) = 1)

\* the buffer is empty again after an iteration that could not enqueue:
\* fewer rows were committed than documents were fetched, all of them are
\* there once, and the last iteration did enqueue
C38_DrainedAfterOutage ==
    /\ ticks = MaxRecoveryTicks
    /\ in_memory_queue = <<>>
    /\ last_error = "Db"
    /\ last_successful_update = ticks
    /\ enqueued >= 2
    /\ \A doc \in Documents : Cardinality(RowsOf(doc)) <= 1

====
